---- MODULE Spec2Model ----
(* A model of the ycf codec: the character-level lexer (cursor.rs), the    *)
(* token-stream parser with one-token lookahead (parse.rs) and the          *)
(* visitor-driven deserializer (de.rs).                                      *)
(*                                                                           *)
(* The source text is a sequence of one-character strings.  Offsets are      *)
(* 0-based as in the code: the character at offset o is src[o + 1].  Only    *)
(* ASCII characters are drawn, so byte offsets and character offsets agree.  *)
EXTENDS Integers, Sequences, FiniteSets, TLC

VARIABLES
    src,      \* Cursor::src, the borrowed source text
    parser,   \* Parser {cursor offset, line, col, skip, lookahead}
    mode,     \* who drives the parser: "ops" | "de" | "top"
    last,     \* the last Parser operation run in mode "ops", with its result
    stack,    \* the deserializer's pending visitor contexts, innermost last
    out,      \* what the visitor has been handed so far, in order
    err       \* the error the deserialization ended with, if any

vars == <<src, parser, mode, last, stack, out, err>>

-----------------------------------------------------------------------------
(* Character classes (cursor.rs, patterns! and consume_token)               *)

Whitespace == {"\t", "\n", "\r", " "}

DecDigit == {"0", "1", "2", "3", "4", "5", "6", "7", "8", "9"}

dec_digits == DecDigit \cup {"_"}

hex_digits == dec_digits \cup {"a", "b", "c", "d", "e", "f"}
                         \cup {"A", "B", "C", "D", "E", "F"}

Letter == {"a", "b", "c", "d", "e", "f", "g", "h", "i", "j", "k", "l", "m",
           "n", "o", "p", "q", "r", "s", "t", "u", "v", "w", "x", "y", "z",
           "A", "B", "C", "D", "E", "F", "G", "H", "I", "J", "K", "L", "M",
           "N", "O", "P", "Q", "R", "S", "T", "U", "V", "W", "X", "Y", "Z"}

is_xid_start(c) == c \in Letter

is_xid_continue(c) == c \in Letter \cup DecDigit \cup {"_"}

IdentStart == Letter \cup {"_"}

IdentContinue == Letter \cup DecDigit \cup {"_", "-"}

-----------------------------------------------------------------------------
(* Cursor (cursor.rs)                                                       *)

is_eof(o) == o >= Len(src)

\* Cursor::peek at offset o: <<c>> or <<>> at the end of the input
peek(o) == IF o < Len(src) THEN <<src[o + 1]>> ELSE <<>>

PeekIn(o, C) == o < Len(src) /\ src[o + 1] \in C

\* Cursor::eat_while(pred): the offset after the longest run of characters of C
\* (the loop stops at the first offset whose character is not in C)
eat_while(o, C) ==
    CHOOSE e \in o..Len(src) :
        /\ \A i \in o..(e - 1) : PeekIn(i, C)
        /\ ~PeekIn(e, C)

RECURSIVE EatUntilNewline(_)
EatUntilNewline(o) ==
    IF o < Len(src) /\ src[o + 1] # "\n" THEN EatUntilNewline(o + 1) ELSE o

\* Cursor::eat: one character, if there is one
eat(o) == IF o < Len(src) THEN o + 1 ELSE o

\* Cursor::token_src
token_src(token) == SubSeq(src, token.start + 1, token.end)


digit_offset(base) == IF base = "Dec" THEN 0 ELSE 2

radix(base) ==
    CASE base = "Hex" -> 16
      [] base = "Dec" -> 10
      [] base = "Oct" -> 8
      [] base = "Bin" -> 2

\* TokenKind, a variant without fields
TokenKind(k) == [k |-> k]
KKeyword(kw) == [k |-> "Keyword", kw |-> kw]
KInteger(sign, base) == [k |-> "Integer", sign |-> sign, base |-> base]
KString(terminated) == [k |-> "String", terminated |-> terminated]

\* a faulty string arm that takes the end of the input for the closing
\* quote
RECURSIVE ConsumeStringClosedByEnd(_)
ConsumeStringClosedByEnd(o) ==
    IF o >= Len(src) THEN [end |-> o, terminated |-> TRUE]
    ELSE LET v == src[o + 1] IN
         CASE v = "\"" -> [end |-> o + 1, terminated |-> TRUE]
           [] v = "\\" /\ PeekIn(o + 1, {"\"", "\\"}) -> ConsumeStringClosedByEnd(o + 2)
           [] v = "\n" -> [end |-> o + 1, terminated |-> FALSE]
           [] OTHER -> ConsumeStringClosedByEnd(o + 1)

\* the string arm of consume_token, entered at the offset after the opening
\* quote: [end, terminated]
RECURSIVE ConsumeString(_)
ConsumeString(o) ==
    IF o >= Len(src) THEN [end |-> o, terminated |-> FALSE]
    ELSE LET v == src[o + 1] IN
         CASE v = "\"" -> [end |-> o + 1, terminated |-> TRUE]
           [] v = "\\" /\ PeekIn(o + 1, {"\"", "\\"}) -> ConsumeString(o + 2)
           [] v = "\n" -> [end |-> o + 1, terminated |-> FALSE]
           [] OTHER -> ConsumeString(o + 1)

\* the tail of consume_number after the integer part, at offset o
NumberTail(o, sign) ==
    CASE PeekIn(o, {"."}) ->
            LET o1 == o + 1 IN
            IF PeekIn(o1, DecDigit)
            THEN LET o2 == eat_while(o1, dec_digits) IN
                 IF PeekIn(o2, {"e", "E"})
                 THEN LET o3 == IF PeekIn(o2, {"+", "-"}) THEN o2 + 1 ELSE o2
                      IN [kind |-> TokenKind("Float"), end |-> eat_while(o3, dec_digits)]
                 ELSE [kind |-> TokenKind("Float"), end |-> o2]
            ELSE [kind |-> TokenKind("Float"), end |-> o1]
      [] PeekIn(o, {"e", "E"}) ->
            LET o1 == o + 1
                o2 == IF PeekIn(o1, {"+", "-"}) THEN o1 + 1 ELSE o1
            IN [kind |-> TokenKind("Float"), end |-> eat_while(o2, dec_digits)]
      [] OTHER -> [kind |-> KInteger(sign, "Dec"), end |-> o]

\* Cursor::consume_number(first), entered at the offset o after `first`
consume_number(first0, o0) ==
    LET sign == first0 = "-"
        atEnd == sign /\ o0 >= Len(src)
        first == IF sign /\ ~atEnd THEN src[o0 + 1] ELSE first0
        o == IF sign /\ ~atEnd THEN o0 + 1 ELSE o0
    IN  IF atEnd THEN [kind |-> KInteger(TRUE, "Dec"), end |-> o0]
        ELSE IF first = "0"
        THEN CASE PeekIn(o, {"x"}) ->
                    [kind |-> KInteger(sign, "Hex"),
                     end |-> eat_while(o + 1, hex_digits)]
               [] PeekIn(o, {"o"}) ->
                    [kind |-> KInteger(sign, "Oct"),
                     end |-> eat_while(o + 1, dec_digits)]
               [] PeekIn(o, {"b"}) ->
                    [kind |-> KInteger(sign, "Bin"),
                     end |-> eat_while(o + 1, dec_digits)]
               [] PeekIn(o, dec_digits) ->
                    NumberTail(eat_while(o, dec_digits), sign)
               [] OTHER -> NumberTail(o, sign)
        ELSE NumberTail(eat_while(o, dec_digits), sign)

\* Cursor::consume_token at offset o (o < Len(src)): [kind, end]
consume_token(o) ==
    LET c == src[o + 1]
        o1 == o + 1
    IN  CASE c = "/" ->
                IF PeekIn(o1, {"/"})
                THEN [kind |-> TokenKind("Comment"), end |-> eat(EatUntilNewline(o1))]
                ELSE [kind |-> TokenKind("Unknown"), end |-> o1]
          [] c \in Whitespace ->
                [kind |-> TokenKind("Whitespace"), end |-> eat_while(o1, Whitespace)]
          [] is_xid_start(c) \/ c = "_" ->
                LET end == eat_while(o1, IdentContinue)
                    text == SubSeq(src, o + 1, end)
                IN  [kind |-> CASE text = <<"t", "r", "u", "e">> -> KKeyword("True")
                                [] text = <<"f", "a", "l", "s", "e">> -> KKeyword("False")
                                [] text = <<"n", "u", "l", "l">> -> KKeyword("Null")
                                [] OTHER -> TokenKind("Ident"),
                     end |-> end]
          [] c = "[" -> [kind |-> TokenKind("StartSquare"), end |-> o1]
          [] c = "]" -> [kind |-> TokenKind("EndSquare"), end |-> o1]
          [] c = "{" -> [kind |-> TokenKind("StartCurly"), end |-> o1]
          [] c = "}" -> [kind |-> TokenKind("EndCurly"), end |-> o1]
          [] c = "." -> [kind |-> TokenKind("Dot"), end |-> o1]
          [] c = "=" -> [kind |-> TokenKind("Equal"), end |-> o1]
          [] c \in DecDigit \cup {"-"} -> consume_number(c, o1)
          [] c = "\"" ->
                LET r == ConsumeString(o1)
                IN  [kind |-> KString(r.terminated), end |-> r.end]
          [] OTHER -> [kind |-> TokenKind("Unknown"), end |-> o1]

\* a faulty read_token that takes the start offset after the token has
\* been consumed
read_token_late_start(o) ==
    IF is_eof(o) THEN [kind |-> TokenKind("Eof"), start |-> o, end |-> o]
    ELSE LET With(r) == [kind |-> r.kind, start |-> r.end, end |-> r.end]
         IN  With(consume_token(o))

\* Cursor::read_token at offset o: the Token {kind, start, end}
read_token(o) ==
    IF is_eof(o) THEN [kind |-> TokenKind("Eof"), start |-> o, end |-> o]
    ELSE LET With(r) == [kind |-> r.kind, start |-> o, end |-> r.end]
         IN  With(consume_token(o))

-----------------------------------------------------------------------------
(* Parser: lookahead and position tracking (parse.rs)                       *)

\* Option<T> is a sequence of length at most one
None == <<>>
Some(v) == <<v>>

\* Parser::new
ParserNew == [off |-> 0, line |-> 0, col |-> 0, skip |-> TRUE, lookahead |-> None]

SpanToken(token, line, col) == [token |-> token, line |-> line, col |-> col]

\* Parser::skip(kind)
skip(p, kind) == p.skip /\ kind \in {TokenKind("Whitespace"), TokenKind("Comment")}

\* src.split('\n').enumerate().last(): the number of newlines in text
CountNewlines(text) == Cardinality({i \in 1..Len(text) : text[i] = "\n"})

\* ... and the length of the piece after the last newline
LastLineLen(text) ==
    LET nl == {i \in 1..Len(text) : text[i] = "\n"}
    IN  IF nl = {} THEN Len(text)
        ELSE Len(text) - (CHOOSE i \in nl : \A j \in nl : j <= i)

\* a faulty bookkeeping that steps over the newline ending a comment once
\* more after the split has counted it
AdvanceCountingCommentNewline(p, token) ==
    LET With(text, n) ==
            IF token.kind = TokenKind("Comment") /\ n >= 1
            THEN [p EXCEPT !.off = token.end, !.line = p.line + n + 1, !.col = 0]
            ELSE IF token.kind = TokenKind("Whitespace")
            THEN [p EXCEPT !.off = token.end,
                           !.line = p.line + n,
                           !.col = (IF n >= 1 THEN 0 ELSE p.col) + LastLineLen(text)]
            ELSE [p EXCEPT !.off = token.end, !.col = p.col + Len(text)]
    IN  With(token_src(token), CountNewlines(token_src(token)))

\* the line/col bookkeeping of next_token for a token just read
Advance(p, token) ==
    LET With(text, n) ==
            IF token.kind \in {TokenKind("Whitespace"), TokenKind("Comment")}
            THEN [p EXCEPT !.off = token.end,
                           !.line = p.line + n,
                           !.col = (IF n >= 1 THEN 0 ELSE p.col) + LastLineLen(text)]
            ELSE [p EXCEPT !.off = token.end, !.col = p.col + Len(text)]
    IN  With(token_src(token), CountNewlines(token_src(token)))

\* Parser::next_token: [p, tok]
RECURSIVE next_token(_)
next_token(p) ==
    IF p.lookahead # None
    THEN LET Taken(token, p1) ==
                 IF skip(p1, token.token.kind) THEN next_token(p1)
                 ELSE [p |-> p1, tok |-> token]
         IN  Taken(p.lookahead[1], [p EXCEPT !.lookahead = None])
    ELSE LET Advanced(token, p1) ==
                 IF skip(p1, token.kind) THEN next_token(p1)
                 ELSE [p |-> p1, tok |-> SpanToken(token, p.line, p.col)]
             Read(token) == Advanced(token, Advance(p, token))
         IN  Read(read_token(p.off))

\* a faulty peek_token that reads the token and does not buffer it
peek_token_unbuffered(p) ==
    IF p.lookahead # None /\ ~skip(p, p.lookahead[1].token.kind)
    THEN [p |-> p, tok |-> p.lookahead[1]]
    ELSE next_token(p)

\* Parser::peek_token: [p, tok]
peek_token(p) ==
    IF p.lookahead # None /\ ~skip(p, p.lookahead[1].token.kind)
    THEN [p |-> p, tok |-> p.lookahead[1]]
    ELSE LET With(r) == [p |-> [r.p EXCEPT !.lookahead = Some(r.tok)], tok |-> r.tok]
         IN  With(next_token(p))

\* mem::replace(&mut self.skip, false) ... self.skip = old, around a read
RestoreSkip(r, old) == [p |-> [r.p EXCEPT !.skip = old], tok |-> r.tok]

\* Parser::next_no_skip
next_no_skip(p) == RestoreSkip(next_token([p EXCEPT !.skip = FALSE]), p.skip)

\* Parser::peek_no_skip
peek_no_skip(p) == RestoreSkip(peek_token([p EXCEPT !.skip = FALSE]), p.skip)

\* a peek that answers whether the next token is of the given kind: [p, val]
PeekIs(r, kind) == [p |-> r.p, val |-> r.tok.token.kind = kind]

\* a faulty peek_eof that looks for `}` as the braced map does
peek_eof_as_end_map(p) == PeekIs(peek_token(p), TokenKind("EndCurly"))

\* Parser::peek_eof
peek_eof(p) == PeekIs(peek_token(p), TokenKind("Eof"))

\* ParseError::new
ParseError(token, kind) == [token |-> token, kind |-> kind]

Ok(v) == [ok |-> TRUE, val |-> v]
Err(e) == [ok |-> FALSE, err |-> e]

\* ParseErrorKind
ParseErrorKind(k) == [k |-> k]
ExpectedInteger(signed) == [k |-> "ExpectedInteger", signed |-> signed]
InvalidEscape(pos) == [k |-> "InvalidEscape", pos |-> pos]

\* a faulty error that reports the position the parser has reached, not
\* the position of the token
error_at_parser_position(p, kind) ==
    LET With(r) ==
            [p |-> r.p,
             err |-> ParseError(SpanToken(r.tok.token, r.p.line, r.p.col), kind)]
    IN  With(peek_token(p))

\* Parser::error: [p, err]
error(p, kind) ==
    LET With(r) == [p |-> r.p, err |-> ParseError(r.tok, kind)]
    IN  With(peek_token(p))

Unit == <<>>

\* Parser::parse_null: [p, res]
parse_null(p) ==
    LET With(r) ==
            [p |-> r.p,
             res |-> IF r.tok.token.kind = KKeyword("Null") THEN Ok(Unit)
                     ELSE Err(ParseError(r.tok, ParseErrorKind("ExpectedBool")))]
    IN  With(next_token(p))

\* Parser::parse_bool
parse_bool(p) ==
    LET With(r) ==
            [p |-> r.p,
             res |-> CASE r.tok.token.kind = KKeyword("True") -> Ok(TRUE)
                       [] r.tok.token.kind = KKeyword("False") -> Ok(FALSE)
                       [] OTHER -> Err(ParseError(r.tok, ParseErrorKind("ExpectedBool")))]
    IN  With(next_token(p))

-----------------------------------------------------------------------------
(* Strings (parse.rs, parse_string)                                         *)

\* the printable ASCII characters in code point order, from 32 (the grave
\* accent, which no input uses, is named by its code point)
Printable ==
    <<" ", "!", "\"", "#", "$", "%", "&", "'", "(", ")", "*", "+", ",", "-",
      ".", "/", "0", "1", "2", "3", "4", "5", "6", "7", "8", "9", ":", ";",
      "<", "=", ">", "?", "@", "A", "B", "C", "D", "E", "F", "G", "H", "I",
      "J", "K", "L", "M", "N", "O", "P", "Q", "R", "S", "T", "U", "V", "W",
      "X", "Y", "Z", "[", "\\", "]", "^", "_", "U+0060", "a", "b", "c", "d", "e",
      "f", "g", "h", "i", "j", "k", "l", "m", "n", "o", "p", "q", "r", "s",
      "t", "u", "v", "w", "x", "y", "z", "{", "|", "}", "~">>

\* a char's scalar value; the produced String is a sequence of scalar values
CodePoint(c) ==
    CASE c = "\t" -> 9
      [] c = "\n" -> 10
      [] c = "\r" -> 13
      [] OTHER -> 31 + (CHOOSE i \in 1..Len(Printable) : Printable[i] = c)

\* char::to_digit(radix): the digit's value, or -1 for None
to_digit(c, rdx) ==
    LET v == CASE c \in DecDigit -> CodePoint(c) - 48
               [] c \in {"a", "b", "c", "d", "e", "f"} -> CodePoint(c) - 87
               [] c \in {"A", "B", "C", "D", "E", "F"} -> CodePoint(c) - 55
               [] OTHER -> -1
    IN  IF v < rdx THEN v ELSE -1

\* chars.next().and_then(|(_, c)| c.to_digit(16)) at index i of text
DigitAt(text, i) == IF i < Len(text) THEN to_digit(text[i + 1], 16) ELSE -1

\* char::from_u32: is val a Unicode scalar value
IsScalar(val) == val <= 1114111 /\ ~(val >= 55296 /\ val <= 57343)

\* a faulty 'x' arm that takes any two hex digits, 0x80 and above included
HexEscapeAnyByte(text, i) ==
    LET d1 == DigitAt(text, i)
        d2 == DigitAt(text, i + 1)
    IN  CASE d1 < 0 -> [ok |-> FALSE, i |-> i, val |-> 0]
          [] d2 < 0 -> [ok |-> FALSE, i |-> i, val |-> 0]
          [] OTHER -> [ok |-> TRUE, i |-> i + 2, val |-> d1 * 16 + d2]

\* the 'x' arm at index i of text (after `\x`): [ok, i, val]
HexEscape(text, i) ==
    LET d1 == DigitAt(text, i)
        d2 == DigitAt(text, i + 1)
    IN  CASE d1 < 0 -> [ok |-> FALSE, i |-> i, val |-> 0]
          [] d1 > 7 -> [ok |-> FALSE, i |-> i, val |-> 0]
          [] d2 < 0 -> [ok |-> FALSE, i |-> i, val |-> 0]
          [] OTHER -> [ok |-> IsScalar(d1 * 16 + d2), i |-> i + 2,
                       val |-> d1 * 16 + d2]

\* the `while let` loop of the 'u' arm at index i of text: [ok, i, ct, val]
RECURSIVE UnicodeLoop(_, _, _, _)
UnicodeLoop(text, i, ct, val) ==
    CASE i >= Len(text) -> [ok |-> TRUE, i |-> i, ct |-> ct, val |-> val]
      [] text[i + 1] = "}" -> [ok |-> TRUE, i |-> i + 1, ct |-> ct, val |-> val]
      [] ct >= 6 -> [ok |-> FALSE, i |-> i, ct |-> ct, val |-> val]
      [] DigitAt(text, i + 1) < 0 -> [ok |-> FALSE, i |-> i, ct |-> ct, val |-> val]
      [] OTHER -> UnicodeLoop(text, i + 2, ct + 1, val * 16 + DigitAt(text, i + 1))

\* the 'u' arm at index i of text (after `\u`): [ok, i, val]
UnicodeEscape(text, i) ==
    IF ~(i < Len(text) /\ text[i + 1] = "{") THEN [ok |-> FALSE, i |-> i, val |-> 0]
    ELSE LET With(r) ==
                 [ok |-> r.ok /\ r.ct # 0 /\ IsScalar(r.val), i |-> r.i, val |-> r.val]
         IN  With(UnicodeLoop(text, i + 1, 0, 0))

Panic == [k |-> "Panic"]

\* the escape walk of parse_string over the token text, from index i with
\* the characters pushed so far: Ok(out) or Err(kind)
RECURSIVE Unescape(_, _, _)
Unescape(text, i, acc) ==
    IF i >= Len(text) THEN Ok(acc)
    ELSE LET Escaped(r) ==
                 IF r.ok THEN Unescape(text, r.i, Append(acc, r.val))
                 ELSE Err(InvalidEscape(i))
             c == text[i + 1]
         IN
         CASE c = "\\" ->
                IF i + 1 >= Len(text) THEN Err(Panic)
                ELSE LET esc == text[i + 2] IN
                     CASE esc = "n" -> Unescape(text, i + 2, Append(acc, 10))
                       [] esc = "r" -> Unescape(text, i + 2, Append(acc, 13))
                       [] esc = "t" -> Unescape(text, i + 2, Append(acc, 9))
                       [] esc = "0" -> Unescape(text, i + 2, Append(acc, 0))
                       [] esc = "\\" -> Unescape(text, i + 2, Append(acc, 92))
                       [] esc = "\"" -> Unescape(text, i + 2, Append(acc, 34))
                       [] esc = "x" -> Escaped(HexEscape(text, i + 2))
                       [] esc = "u" -> Escaped(UnicodeEscape(text, i + 2))
                       [] OTHER -> Err(InvalidEscape(i))
           [] c = "\"" -> Ok(acc)
           [] OTHER -> Unescape(text, i + 1, Append(acc, CodePoint(c)))

\* Parser::parse_string: [p, res]
parse_string(p) ==
    LET Walked(tok, u) == IF u.ok THEN u ELSE Err(ParseError(tok, u.err))
        With(r, text) ==
            [p |-> r.p,
             res |-> CASE r.tok.token.kind = KString(FALSE) ->
                            Err(ParseError(r.tok, ParseErrorKind("StringUnterminated")))
                       [] r.tok.token.kind = KString(TRUE) ->
                            IF Len(text) < 2 THEN Err(ParseError(r.tok, Panic))
                            ELSE Walked(r.tok, Unescape(text, 1, <<>>))
                       [] OTHER -> Err(ParseError(r.tok, ParseErrorKind("ExpectedString")))]
        Got(r) == With(r, token_src(r.tok.token))
    IN  Got(next_token(p))

-----------------------------------------------------------------------------
(* Integers (parse.rs, parse_uint and parse_int)                            *)
(*                                                                           *)
(* A 64-bit word is four 16-bit limbs, least significant first, so that the  *)
(* arithmetic of u64 and i64 is exact at its real width.                     *)

LimbBase == 65536

\* the widths of the integer targets: u8/i8 .. u64/i64
Widths == {8, 16, 32, 64}

Zero64 == <<0, 0, 0, 0>>

\* acc.checked_mul(rdx) then .checked_add(d): [overflow, val]
MulAdd(n, rdx, d) ==
    LET t1 == n[1] * rdx + d
        t2 == n[2] * rdx + (t1 \div LimbBase)
        t3 == n[3] * rdx + (t2 \div LimbBase)
        t4 == n[4] * rdx + (t3 \div LimbBase)
    IN  [overflow |-> t4 \div LimbBase # 0,
         val |-> <<t1 % LimbBase, t2 % LimbBase, t3 % LimbBase, t4 % LimbBase>>]

\* the digit loop of u64::from_str_radix over the indices lo..hi (1-based)
\* of text, left to right and stopping at the first error; the range is
\* run as its first half followed by its second half
RECURSIVE FoldDigits(_, _, _, _, _)
FoldDigits(text, lo, hi, rdx, acc) ==
    CASE lo > hi -> Ok(acc)
      [] lo = hi ->
            LET Added(m) == IF m.overflow THEN Err("PosOverflow") ELSE Ok(m.val)
                Digit(d) ==
                    IF d < 0 THEN Err("InvalidDigit") ELSE Added(MulAdd(acc, rdx, d))
            IN  Digit(to_digit(text[lo], rdx))
      [] OTHER ->
            LET Second(r) ==
                    IF r.ok THEN FoldDigits(text, ((lo + hi) \div 2) + 1, hi, rdx, r.val)
                    ELSE r
            IN  Second(FoldDigits(text, lo, (lo + hi) \div 2, rdx, acc))

\* u64::from_str_radix(text, rdx): Ok(word) or Err(IntErrorKind)
from_str_radix(text, rdx) ==
    CASE text = <<>> -> Err("Empty")
      [] Len(text) = 1 /\ text[1] \in {"+", "-"} -> Err("InvalidDigit")
      [] text[1] = "+" -> FoldDigits(text, 2, Len(text), rdx, Zero64)
      [] OTHER -> FoldDigits(text, 1, Len(text), rdx, Zero64)

\* u64::wrapping_neg: the two's complement, ~n + 1 modulo 2^64
wrapping_neg(n) ==
    LET t1 == (LimbBase - 1 - n[1]) + 1
        t2 == (LimbBase - 1 - n[2]) + (t1 \div LimbBase)
        t3 == (LimbBase - 1 - n[3]) + (t2 \div LimbBase)
        t4 == (LimbBase - 1 - n[4]) + (t3 \div LimbBase)
    IN  <<t1 % LimbBase, t2 % LimbBase, t3 % LimbBase, t4 % LimbBase>>

\* the sign bit of a word read as i64
IsNegative(n) == n[4] >= LimbBase \div 2

\* `val > 0` on a word read as i64
IsPositive(n) == ~IsNegative(n) /\ n # Zero64

\* a faulty narrowing that never refuses (an `as` cast in place of try_from)
FitsUnsignedAlways(n, bits) == bits \in Widths

\* T::try_from(u64) for an unsigned T of the given width succeeds
FitsUnsigned(n, bits) ==
    CASE bits = 64 -> TRUE
      [] bits = 32 -> n[4] = 0 /\ n[3] = 0
      [] bits = 16 -> n[4] = 0 /\ n[3] = 0 /\ n[2] = 0
      [] bits = 8 -> n[4] = 0 /\ n[3] = 0 /\ n[2] = 0 /\ n[1] < 256

\* T::try_from(i64) for a signed T of the given width succeeds
FitsSigned(n, bits) ==
    LET top == LimbBase - 1
        half == LimbBase \div 2
    IN  IF IsNegative(n)
        THEN CASE bits = 64 -> TRUE
               [] bits = 32 -> n[4] = top /\ n[3] = top /\ n[2] >= half
               [] bits = 16 -> n[4] = top /\ n[3] = top /\ n[2] = top /\ n[1] >= half
               [] bits = 8 -> n[4] = top /\ n[3] = top /\ n[2] = top
                              /\ n[1] >= LimbBase - 128
        ELSE CASE bits = 64 -> TRUE
               [] bits = 32 -> n[4] = 0 /\ n[3] = 0 /\ n[2] < half
               [] bits = 16 -> n[4] = 0 /\ n[3] = 0 /\ n[2] = 0 /\ n[1] < half
               [] bits = 8 -> n[4] = 0 /\ n[3] = 0 /\ n[2] = 0 /\ n[1] < 128

\* the digit span parse_uint / parse_int re-slice from the source
DigitSpan(token, start) ==
    IF start > token.end THEN <<>> ELSE SubSeq(src, start + 1, token.end)

\* Parser::parse_uint::<T> for an unsigned T of the given width: [p, res]
parse_uint(p, bits) ==
    LET Narrow(tok, val) ==
            CASE ~val.ok -> Err(ParseError(tok, ParseErrorKind("InvalidInteger")))
              [] ~FitsUnsigned(val.val, bits) -> Err(ParseError(tok, ParseErrorKind("InvalidInteger")))
              [] OTHER -> Ok(val.val)
        With(r, kind) ==
            [p |-> r.p,
             res |-> IF kind.k = "Integer" /\ ~kind.sign
                     THEN Narrow(r.tok,
                                 from_str_radix(
                                     DigitSpan(r.tok.token,
                                               r.tok.token.start + digit_offset(kind.base)),
                                     radix(kind.base)))
                     ELSE Err(ParseError(r.tok, ExpectedInteger(FALSE)))]
        Got(r) == With(r, r.tok.token.kind)
    IN  Got(next_token(p))

\* a faulty signed narrowing that converts the magnitude to i64 before it
\* negates, and so refuses the magnitude 2^63
SignedValueConvertFirst(val, sign) ==
    CASE IsNegative(val) -> Err(ParseErrorKind("InvalidInteger"))
      [] sign -> Ok(wrapping_neg(val))
      [] OTHER -> Ok(val)

\* a faulty signed narrowing that tests `val >= 0` after the negation, and
\* so refuses -0
SignedValueRefusingZero(val, sign) ==
    IF sign
    THEN LET With(neg) == IF ~IsNegative(neg) THEN Err(ParseErrorKind("InvalidInteger")) ELSE Ok(neg)
         IN  With(wrapping_neg(val))
    ELSE IF ~IsNegative(val) THEN Ok(val) ELSE Err(ParseErrorKind("InvalidInteger"))

\* the signed narrowing of parse_int: the i64 for a magnitude and a sign
SignedValue(val, sign) ==
    IF sign
    THEN LET With(neg) == IF IsPositive(neg) THEN Err(ParseErrorKind("InvalidInteger")) ELSE Ok(neg)
         IN  With(wrapping_neg(val))
    ELSE IF ~IsNegative(val) THEN Ok(val) ELSE Err(ParseErrorKind("InvalidInteger"))

\* Parser::parse_int::<T> for a signed T of the given width: [p, res]
parse_int(p, bits) ==
    LET Narrow(tok, int) ==
            CASE ~int.ok -> Err(ParseError(tok, ParseErrorKind("InvalidInteger")))
              [] ~FitsSigned(int.val, bits) -> Err(ParseError(tok, ParseErrorKind("InvalidInteger")))
              [] OTHER -> Ok(int.val)
        Signed(tok, val, sign) ==
            IF ~val.ok THEN Err(ParseError(tok, ParseErrorKind("InvalidInteger")))
            ELSE Narrow(tok, SignedValue(val.val, sign))
        With(r, kind) ==
            [p |-> r.p,
             res |-> IF kind.k = "Integer"
                     THEN Signed(r.tok,
                                 from_str_radix(
                                     DigitSpan(r.tok.token,
                                               r.tok.token.start + digit_offset(kind.base)
                                               + (IF kind.sign THEN 1 ELSE 0)),
                                     radix(kind.base)),
                                 kind.sign)
                     ELSE Err(ParseError(r.tok, ExpectedInteger(TRUE)))]
        Got(r) == With(r, r.tok.token.kind)
    IN  Got(next_token(p))

-----------------------------------------------------------------------------
(* Floats, delimiters, paths and the try_ forms (parse.rs)                  *)

\* the index (0-based) after the longest run of characters of C in text from i
RECURSIVE SkipIn(_, _, _)
SkipIn(text, i, C) ==
    IF i < Len(text) /\ text[i + 1] \in C THEN SkipIn(text, i + 1, C) ELSE i

\* <f64 as FromStr>::from_str accepts text (decimal forms; the lexer never
\* produces the words inf or nan inside a Float token)
IsFloatLiteral(text) ==
    LET i0 == IF Len(text) > 0 /\ text[1] \in {"+", "-"} THEN 1 ELSE 0
        i1 == SkipIn(text, i0, DecDigit)
        dot == i1 < Len(text) /\ text[i1 + 1] = "."
        i2 == IF dot THEN SkipIn(text, i1 + 1, DecDigit) ELSE i1
        digits == (i1 - i0) + (IF dot THEN i2 - (i1 + 1) ELSE 0)
        exp == i2 < Len(text) /\ text[i2 + 1] \in {"e", "E"}
        i3 == IF i2 + 1 < Len(text) /\ text[i2 + 2] \in {"+", "-"}
              THEN i2 + 2 ELSE i2 + 1
        i4 == SkipIn(text, i3, DecDigit)
    IN  /\ digits >= 1
        /\ \/ i2 = Len(text)
           \/ exp /\ i4 > i3 /\ i4 = Len(text)

\* Parser::parse_float: [p, res]; the value is kept as the literal's text
parse_float(p) ==
    LET With(r, text) ==
            [p |-> r.p,
             res |-> CASE r.tok.token.kind # TokenKind("Float") -> Err(ParseError(r.tok, ParseErrorKind("ExpectedFloat")))
                       [] ~IsFloatLiteral(text) -> Err(ParseError(r.tok, ParseErrorKind("InvalidFloat")))
                       [] OTHER -> Ok(text)]
        Got(r) == With(r, token_src(r.tok.token))
    IN  Got(next_token(p))

\* the shape shared by start_map, map_delimiter, end_map, start_list, end_list
Expect(p, kind, errkind) ==
    LET With(r) ==
            [p |-> r.p,
             res |-> IF r.tok.token.kind = kind THEN Ok(Unit)
                     ELSE Err(ParseError(r.tok, errkind))]
    IN  With(next_token(p))

start_map(p) == Expect(p, TokenKind("StartCurly"), ParseErrorKind("ExpectedMapStart"))

map_delimiter(p) == Expect(p, TokenKind("Equal"), ParseErrorKind("ExpectedEqual"))

end_map(p) == Expect(p, TokenKind("EndCurly"), ParseErrorKind("ExpectedMapEnd"))

start_list(p) == Expect(p, TokenKind("StartSquare"), ParseErrorKind("ExpectedListStart"))

end_list(p) == Expect(p, TokenKind("EndSquare"), ParseErrorKind("ExpectedListEnd"))

peek_end_map(p) == PeekIs(peek_token(p), TokenKind("EndCurly"))

peek_end_list(p) == PeekIs(peek_token(p), TokenKind("EndSquare"))

\* a faulty loop that looks for the `.` with the skipping peek, so that
\* blanks before a `.` do not end the chain
RECURSIVE PathSegmentsSkippingBlanks(_, _)
PathSegmentsSkippingBlanks(p, path) ==
    LET Segment(seg) ==
            IF seg.tok.token.kind = TokenKind("Ident")
            THEN PathSegmentsSkippingBlanks(seg.p, Append(path, token_src(seg.tok.token)))
            ELSE [p |-> seg.p, res |-> Err(ParseError(seg.tok, ParseErrorKind("ExpectedIdent")))]
        Dot(dot) == Segment(next_no_skip(dot.p))
        Peeked(pk) ==
            IF pk.tok.token.kind # TokenKind("Dot") THEN [p |-> pk.p, res |-> Ok(path)]
            ELSE Dot(next_no_skip(pk.p))
    IN  Peeked(peek_token(p))

\* the `while let Dot = peek_no_skip()` loop of parse_path: [p, res]
RECURSIVE PathSegments(_, _)
PathSegments(p, path) ==
    LET Segment(seg) ==
            IF seg.tok.token.kind = TokenKind("Ident")
            THEN PathSegments(seg.p, Append(path, token_src(seg.tok.token)))
            ELSE [p |-> seg.p, res |-> Err(ParseError(seg.tok, ParseErrorKind("ExpectedIdent")))]
        Dot(dot) == Segment(next_no_skip(dot.p))
        Peeked(pk) ==
            IF pk.tok.token.kind # TokenKind("Dot") THEN [p |-> pk.p, res |-> Ok(path)]
            ELSE Dot(next_no_skip(pk.p))
    IN  Peeked(peek_no_skip(p))

MapPath(key, path) == [key |-> key, path |-> path]

\* Parser::parse_path: [p, res]
parse_path(p) ==
    LET Rest(first, segs) ==
            [p |-> segs.p,
             res |-> IF segs.res.ok THEN Ok(MapPath(first, segs.res.val))
                     ELSE segs.res]
        With(r) ==
            IF r.tok.token.kind = TokenKind("Ident")
            THEN Rest(token_src(r.tok.token), PathSegments(r.p, <<>>))
            ELSE [p |-> r.p, res |-> Err(ParseError(r.tok, ParseErrorKind("ExpectedIdent")))]
    IN  With(next_token(p))

\* Option<Result<..>>: None is <<>>, Some(res) is <<res>>
NoMatch(p) == [p |-> p, res |-> None]

Matched(r) == [p |-> r.p, res |-> Some(r.res)]

\* Parser::try_parse_null
try_parse_null(p) ==
    LET With(pk) ==
            IF pk.tok.token.kind = KKeyword("Null")
            THEN [p |-> next_token(pk.p).p, res |-> Some(Ok(Unit))]
            ELSE NoMatch(pk.p)
    IN  With(peek_token(p))

\* Parser::try_parse_bool
try_parse_bool(p) ==
    LET With(pk) ==
            CASE pk.tok.token.kind = KKeyword("True") ->
                    [p |-> next_token(pk.p).p, res |-> Some(Ok(TRUE))]
              [] pk.tok.token.kind = KKeyword("False") ->
                    [p |-> next_token(pk.p).p, res |-> Some(Ok(FALSE))]
              [] OTHER -> NoMatch(pk.p)
    IN  With(peek_token(p))

\* Parser::try_parse_string
try_parse_string(p) ==
    LET With(pk) ==
            IF pk.tok.token.kind.k = "String" THEN Matched(parse_string(pk.p))
            ELSE NoMatch(pk.p)
    IN  With(peek_token(p))

\* Parser::try_parse_uint
try_parse_uint(p) ==
    LET With(pk) ==
            IF pk.tok.token.kind.k = "Integer" /\ ~pk.tok.token.kind.sign
            THEN Matched(parse_uint(pk.p, 64))
            ELSE NoMatch(pk.p)
    IN  With(peek_token(p))

\* Parser::try_parse_int
try_parse_int(p) ==
    LET With(pk) ==
            IF pk.tok.token.kind.k = "Integer" THEN Matched(parse_int(pk.p, 64))
            ELSE NoMatch(pk.p)
    IN  With(peek_token(p))

\* Parser::try_parse_float
try_parse_float(p) ==
    LET With(pk) ==
            IF pk.tok.token.kind = TokenKind("Float") THEN Matched(parse_float(pk.p))
            ELSE NoMatch(pk.p)
    IN  With(peek_token(p))

\* Parser::try_parse_path
try_parse_path(p) ==
    LET With(pk) ==
            IF pk.tok.token.kind = TokenKind("Ident") THEN Matched(parse_path(pk.p))
            ELSE NoMatch(pk.p)
    IN  With(peek_token(p))

\* the shape shared by try_start_map, try_map_delimiter, try_start_list and
\* the try_end_map / try_end_list that de.rs calls
TryExpect(p, kind) ==
    LET With(pk) ==
            IF pk.tok.token.kind = kind
            THEN [p |-> next_token(pk.p).p, res |-> Some(Unit)]
            ELSE NoMatch(pk.p)
    IN  With(peek_token(p))

try_start_map(p) == TryExpect(p, TokenKind("StartCurly"))

try_map_delimiter(p) == TryExpect(p, TokenKind("Equal"))

try_end_map(p) == TryExpect(p, TokenKind("EndCurly"))

try_start_list(p) == TryExpect(p, TokenKind("StartSquare"))

\* a faulty try_end_list that reports the `]` and leaves it unconsumed
try_end_list_peeking(p) ==
    LET With(pk) ==
            IF pk.tok.token.kind = TokenKind("EndSquare")
            THEN [p |-> pk.p, res |-> Some(Unit)]
            ELSE NoMatch(pk.p)
    IN  With(peek_token(p))

try_end_list(p) == TryExpect(p, TokenKind("EndSquare"))

-----------------------------------------------------------------------------
(* The Deserializer driven by a visitor (de.rs, modes "de" and "top")       *)
(*                                                                           *)
(* The stack holds the visitor contexts that are open, innermost last:       *)
(*   Seed(de)    a seed holding deserializer de, about to call deserialize_X  *)
(*   SeqFrame    inside visit_seq, holding the SeqAccess                      *)
(*   MapFrame    inside visit_map, holding the MapAccess acc                  *)
(*   EnumFrame   inside visit_enum, holding the EnumAccess / VariantAccess    *)
(*   EnumEnd     deserialize_enum waiting for visit_enum to return            *)
(* The visitor asks for elements and entries until it is told there are no   *)
(* more.  Everything it is handed is appended to out.                        *)

Seed(de) == [f |-> "seed", de |-> de, want |-> "value", done |-> FALSE]
SeqFrame == [f |-> "seq", de |-> "Deserializer", want |-> "element", done |-> FALSE]
MapFrame(acc) == [f |-> "map", de |-> acc, want |-> "key", done |-> FALSE]
EnumFrame == [f |-> "enum", de |-> "Deserializer", want |-> "variant", done |-> FALSE]
EnumEnd == [f |-> "enum_end", de |-> "Deserializer", want |-> "end", done |-> FALSE]

Top == stack[Len(stack)]

Pop == SubSeq(stack, 1, Len(stack) - 1)

Running == mode \in {"de", "top"} /\ err = None /\ stack # <<>>

\* error.rs, Error::parse and Error::custom
ParseErr(e) == [kind |-> "Parse", err |-> e]
Message(msg) == [kind |-> "Message", msg |-> msg]

Event(e, v) == [e |-> e, v |-> v]

\* a text as the sequence of its scalar values
Codes(text) == [i \in 1..Len(text) |-> CodePoint(text[i])]

Finish(p, events, newstack) ==
    /\ parser' = p
    /\ out' = out \o events
    /\ stack' = newstack
    /\ UNCHANGED <<src, mode, last, err>>

Fail(p, e) ==
    /\ parser' = p
    /\ err' = Some(e)
    /\ UNCHANGED <<src, mode, last, stack, out>>

\* visitor.visit_X(parse_X()?): hand over a scalar and return to the caller
Visit(r, e, v) ==
    IF r.res.ok THEN Finish(r.p, <<Event(e, v)>>, Pop)
    ELSE Fail(r.p, ParseErr(r.res.err))

UintName(bits) ==
    CASE bits = 8 -> "u8" [] bits = 16 -> "u16" [] bits = 32 -> "u32" [] bits = 64 -> "u64"

IntName(bits) ==
    CASE bits = 8 -> "i8" [] bits = 16 -> "i16" [] bits = 32 -> "i32" [] bits = 64 -> "i64"

deserialize_unit(p) == Visit(parse_null(p), "unit", <<>>)

deserialize_bool(p) ==
    LET With(r) == Visit(r, "bool", IF r.res.ok /\ r.res.val THEN <<1>> ELSE <<0>>)
    IN  With(parse_bool(p))

deserialize_uint(p, bits) ==
    LET With(r) == Visit(r, UintName(bits), IF r.res.ok THEN r.res.val ELSE <<>>)
    IN  With(parse_uint(p, bits))

deserialize_int(p, bits) ==
    LET With(r) == Visit(r, IntName(bits), IF r.res.ok THEN r.res.val ELSE <<>>)
    IN  With(parse_int(p, bits))

deserialize_f64(p) ==
    LET With(r) == Visit(r, "f64", IF r.res.ok THEN Codes(r.res.val) ELSE <<>>)
    IN  With(parse_float(p))

deserialize_string(p) ==
    LET With(r) == Visit(r, "string", IF r.res.ok THEN r.res.val ELSE <<>>)
    IN  With(parse_string(p))

\* the step every handler of the shape `self.parser.X()?; <go on>` takes:
\* the error of r, or the events and the new stack
Then(r, events, newstack) ==
    IF r.res.ok THEN Finish(r.p, events, newstack)
    ELSE Fail(r.p, ParseErr(r.res.err))

deserialize_seq(p) ==
    Then(start_list(p), <<Event("seq", <<>>)>>, Append(Pop, SeqFrame))

deserialize_map(p) ==
    Then(start_map(p), <<Event("map", <<>>)>>, Append(Pop, MapFrame("Deserializer")))

AtSeed(de) == Running /\ Top.f = "seed" /\ Top.de = de

\* the match of Deserializer::deserialize_any on the peeked token
Dispatch(pk, kind) ==
    CASE kind = KKeyword("Null") -> deserialize_unit(pk.p)
      [] kind \in {KKeyword("True"), KKeyword("False")} -> deserialize_bool(pk.p)
      [] kind.k = "Integer" /\ ~kind.sign -> deserialize_uint(pk.p, 64)
      [] kind.k = "Integer" /\ kind.sign -> deserialize_int(pk.p, 64)
      [] kind = TokenKind("Float") -> deserialize_f64(pk.p)
      [] kind.k = "String" -> deserialize_string(pk.p)
      [] kind = TokenKind("StartSquare") -> deserialize_seq(pk.p)
      [] kind = TokenKind("StartCurly") -> deserialize_map(pk.p)
      [] OTHER -> LET With(e) == Fail(e.p, ParseErr(e.err))
                  IN  With(error(pk.p, ParseErrorKind("UnknownToken")))

\* Deserializer::deserialize_any
DeserializeAny ==
    /\ AtSeed("Deserializer")
    /\ LET With(pk) == Dispatch(pk, pk.tok.token.kind)
       IN  With(peek_token(parser))

\* Deserializer::deserialize_bool
DeserializeBool == AtSeed("Deserializer") /\ deserialize_bool(parser)

\* Deserializer::deserialize_i8 .. deserialize_i64
DeserializeInt == AtSeed("Deserializer") /\ \E bits \in Widths : deserialize_int(parser, bits)

\* Deserializer::deserialize_u8 .. deserialize_u64
DeserializeUint == AtSeed("Deserializer") /\ \E bits \in Widths : deserialize_uint(parser, bits)

\* Deserializer::deserialize_f32 / deserialize_f64
DeserializeFloat == AtSeed("Deserializer") /\ deserialize_f64(parser)

\* Deserializer::deserialize_char / _str / _string / _identifier
DeserializeString == AtSeed("Deserializer") /\ deserialize_string(parser)

\* Deserializer::deserialize_unit / _unit_struct
DeserializeUnit == AtSeed("Deserializer") /\ deserialize_unit(parser)

\* Deserializer::deserialize_seq / _tuple / _tuple_struct / _bytes / _byte_buf
DeserializeSeq == AtSeed("Deserializer") /\ deserialize_seq(parser)

\* Deserializer::deserialize_map / _struct
DeserializeMap == AtSeed("Deserializer") /\ deserialize_map(parser)

\* Deserializer::deserialize_option; the visitor of visit_some asks for a
\* value that is not itself an option (done marks the seed as inside Some)
DeserializeOption ==
    /\ AtSeed("Deserializer")
    /\ ~Top.done
    /\ LET With(r) ==
               IF r.res # None THEN Finish(r.p, <<Event("none", <<>>)>>, Pop)
               ELSE Finish(r.p, <<Event("some", <<>>)>>,
                           Append(Pop, [Top EXCEPT !.done = TRUE]))
       IN  With(try_parse_null(parser))

\* Deserializer::deserialize_enum up to the call of visit_enum
DeserializeEnum ==
    /\ AtSeed("Deserializer")
    /\ LET Map(m) ==
               IF m.res # None
               THEN Finish(m.p, <<Event("enum", <<>>)>>, Pop \o <<EnumEnd, EnumFrame>>)
               ELSE Fail(m.p, Message("expected an enum"))
           Str(s) ==
               CASE s.res = None -> Map(try_start_map(s.p))
                 [] s.res[1].ok ->
                      Finish(s.p, <<Event("variant", s.res[1].val),
                                    Event("unit_variant", <<>>)>>, Pop)
                 [] OTHER -> Fail(s.p, ParseErr(s.res[1].err))
       IN  Str(try_parse_string(parser))

\* a faulty end of deserialize_enum that returns without reading the `}`
DeserializeEnumEndUnchecked ==
    /\ Running /\ Top.f = "enum_end"
    /\ Finish(parser, <<Event("end_enum", <<>>)>>, Pop)

\* Deserializer::deserialize_enum after visit_enum has returned
DeserializeEnumEnd ==
    /\ Running /\ Top.f = "enum_end"
    /\ Then(end_map(parser), <<Event("end_enum", <<>>)>>, Pop)

\* SeqAccess for Deserializer, next_element_seed
NextElementSeed ==
    /\ Running /\ Top.f = "seq"
    /\ LET With(r) ==
               IF r.res # None THEN Finish(r.p, <<Event("end_seq", <<>>)>>, Pop)
               ELSE Finish(r.p, <<>>, Append(stack, Seed("Deserializer")))
       IN  With(try_end_list(parser))

\* a faulty key deserializer that also takes a string literal as a key
KeyDeserializeAcceptingStrings(p) ==
    LET With(next) ==
            IF next.tok.token.kind.k \in {"Ident", "String"}
            THEN [p |-> next_no_skip(next.p).p, res |-> Ok(token_src(next.tok.token))]
            ELSE [p |-> next.p, res |-> Err(ParseError(next.tok, ParseErrorKind("ExpectedIdent")))]
    IN  With(peek_no_skip(p))

\* KeyDeserializer::deserialize_any, to which every other request forwards:
\* [p, res]
KeyDeserialize(p) ==
    LET With(next) ==
            IF next.tok.token.kind = TokenKind("Ident")
            THEN [p |-> next_no_skip(next.p).p, res |-> Ok(token_src(next.tok.token))]
            ELSE [p |-> next.p, res |-> Err(ParseError(next.tok, ParseErrorKind("ExpectedIdent")))]
    IN  With(peek_no_skip(p))

\* seed.deserialize(&mut KeyDeserializer { .. }).map(Some) inside a map
KeySeed(p) ==
    LET With(r) ==
            Then(r, <<Event("key", IF r.res.ok THEN Codes(r.res.val) ELSE <<>>)>>,
                 Append(Pop, [Top EXCEPT !.want = "value"]))
    IN  With(KeyDeserialize(p))

\* the body the three next_value_seed share: a `.` hands the value to a
\* PathMapDeserializer, otherwise `=` and the value itself; below is the
\* frame the visitor is left in
ValueSeed(p, below) ==
    LET With(next) ==
            IF next.tok.token.kind = TokenKind("Dot")
            THEN Finish(next_no_skip(next.p).p, <<>>, Pop \o <<below, Seed("PathMap")>>)
            ELSE Then(map_delimiter(next.p), <<>>, Pop \o <<below, Seed("Deserializer")>>)
    IN  With(peek_no_skip(p))

AtMap(acc, want) == Running /\ Top.f = "map" /\ Top.de = acc /\ Top.want = want

\* MapAccess for Deserializer, next_key_seed
NextKeySeed ==
    /\ AtMap("Deserializer", "key")
    /\ LET With(r) ==
               IF r.res # None THEN Finish(r.p, <<Event("end_map", <<>>)>>, Pop)
               ELSE KeySeed(r.p)
       IN  With(try_end_map(parser))

\* MapAccess for Deserializer, next_value_seed
NextValueSeed ==
    /\ AtMap("Deserializer", "value")
    /\ ValueSeed(parser, [Top EXCEPT !.want = "key"])

\* PathMapDeserializer::deserialize_any, to which all but enum forward
PathMapDeserializeAny ==
    /\ AtSeed("PathMap")
    /\ Finish(parser, <<Event("map", <<>>)>>, Append(Pop, MapFrame("PathMap")))

\* PathMapDeserializer::deserialize_enum
PathMapDeserializeEnum ==
    /\ AtSeed("PathMap")
    /\ Finish(parser, <<Event("enum", <<>>)>>, Append(Pop, EnumFrame))

\* MapAccess for PathMapDeserializer, next_key_seed
PathMapNextKeySeed ==
    /\ AtMap("PathMap", "key")
    /\ IF Top.done THEN Finish(parser, <<Event("end_map", <<>>)>>, Pop)
       ELSE KeySeed(parser)

\* a faulty next_value_seed that never sets self.done
PathMapNextValueSeedNeverDone ==
    /\ AtMap("PathMap", "value")
    /\ ValueSeed(parser, [Top EXCEPT !.want = "key"])

\* MapAccess for PathMapDeserializer, next_value_seed
PathMapNextValueSeed ==
    /\ AtMap("PathMap", "value")
    /\ ValueSeed(parser, [Top EXCEPT !.want = "key", !.done = TRUE])

\* EnumAccess for Deserializer, variant_seed
VariantSeed ==
    /\ Running /\ Top.f = "enum" /\ Top.want = "variant"
    /\ LET With(r) ==
               Then(r, <<Event("variant", IF r.res.ok THEN Codes(r.res.val) ELSE <<>>)>>,
                    Append(Pop, [Top EXCEPT !.want = "payload"]))
       IN  With(KeyDeserialize(parser))

AtVariant == Running /\ Top.f = "enum" /\ Top.want = "payload"

\* the `self.parser.map_delimiter()?` every VariantAccess method starts with
DelimiterFailed(eq) == Fail(eq.p, ParseErr(eq.res.err))

\* VariantAccess for Deserializer, unit_variant
UnitVariant ==
    /\ AtVariant
    /\ LET With(eq) ==
               IF ~eq.res.ok THEN DelimiterFailed(eq)
               ELSE Then(parse_null(eq.p), <<Event("unit_variant", <<>>)>>, Pop)
       IN  With(map_delimiter(parser))

\* VariantAccess for Deserializer, newtype_variant_seed
NewtypeVariantSeed ==
    /\ AtVariant
    /\ Then(map_delimiter(parser), <<Event("newtype_variant", <<>>)>>,
            Append(Pop, Seed("Deserializer")))

\* VariantAccess for Deserializer, tuple_variant
TupleVariant ==
    /\ AtVariant
    /\ LET With(eq) ==
               IF ~eq.res.ok THEN DelimiterFailed(eq)
               ELSE Then(start_list(eq.p),
                         <<Event("tuple_variant", <<>>), Event("seq", <<>>)>>,
                         Append(Pop, SeqFrame))
       IN  With(map_delimiter(parser))

\* VariantAccess for Deserializer, struct_variant
StructVariant ==
    /\ AtVariant
    /\ LET With(eq) ==
               IF ~eq.res.ok THEN DelimiterFailed(eq)
               ELSE Then(start_map(eq.p),
                         <<Event("struct_variant", <<>>), Event("map", <<>>)>>,
                         Append(Pop, MapFrame("Deserializer")))
       IN  With(map_delimiter(parser))

\* TopDeserializer::deserialize_any, to which every other request forwards
TopDeserializeAny ==
    /\ AtSeed("Top")
    /\ Finish(parser, <<Event("map", <<>>)>>, Append(Pop, MapFrame("Top")))

\* MapAccess for TopDeserializer, next_key_seed
TopNextKeySeed ==
    /\ AtMap("Top", "key")
    /\ LET With(r) ==
               IF r.val THEN Finish(r.p, <<Event("end_map", <<>>)>>, Pop)
               ELSE KeySeed(r.p)
       IN  With(peek_eof(parser))

\* MapAccess for TopDeserializer, next_value_seed
TopNextValueSeed ==
    /\ AtMap("Top", "value")
    /\ ValueSeed(parser, [Top EXCEPT !.want = "key"])

Deserialize ==
    \/ DeserializeAny \/ DeserializeBool \/ DeserializeInt \/ DeserializeUint
    \/ DeserializeFloat \/ DeserializeString \/ DeserializeUnit
    \/ DeserializeSeq \/ DeserializeMap \/ DeserializeOption
    \/ DeserializeEnum \/ DeserializeEnumEnd
    \/ NextElementSeed \/ NextKeySeed \/ NextValueSeed
    \/ PathMapDeserializeAny \/ PathMapDeserializeEnum
    \/ PathMapNextKeySeed \/ PathMapNextValueSeed
    \/ VariantSeed \/ UnitVariant \/ NewtypeVariantSeed
    \/ TupleVariant \/ StructVariant
    \/ TopDeserializeAny \/ TopNextKeySeed \/ TopNextValueSeed

-----------------------------------------------------------------------------
(* Inputs                                                                   *)

\* {a.b.c = 1}
DocNestedPath == <<"{", "a", ".", "b", ".", "c", " ", "=", " ", "1", "}">>

\* color = "red"
DocColor == <<"c", "o", "l", "o", "r", " ", "=", " ", "\"", "r", "e", "d", "\"">>

\* 
DocEmpty == <<>>

\*  \n
DocBlank == <<" ", "\n">>

\* // c\n
DocComment == <<"/", "/", " ", "c", "\n">>

\* [1 2 3]
DocList == <<"[", "1", " ", "2", " ", "3", "]">>

\* {variant = 5}
DocEnum == <<"{", "v", "a", "r", "i", "a", "n", "t", " ", "=", " ", "5", "}">>

\* tag = {variant = 5}
DocTagEnum == <<"t", "a", "g", " ", "=", " ", "{", "v", "a", "r", "i", "a", "n", "t", " ", "=", " ", "5", "}">>

\* {v = null}
DocEnumUnit == <<"{", "v", " ", "=", " ", "n", "u", "l", "l", "}">>

\* {v = [1]}
DocEnumTuple == <<"{", "v", " ", "=", " ", "[", "1", "]", "}">>

\* {v = {a = 1}}
DocEnumStruct == <<"{", "v", " ", "=", " ", "{", "a", " ", "=", " ", "1", "}", "}">>

\* {v = 5 6}
DocEnumExtra == <<"{", "v", " ", "=", " ", "5", " ", "6", "}">>

\* "v"
DocEnumString == <<"\"", "v", "\"">>

\* x = }
DocBadValue == <<"x", " ", "=", " ", "}">>

\* // c\nx = 1\n  y = ]
DocBadValueLine == <<"/", "/", " ", "c", "\n", "x", " ", "=", " ", "1", "\n", " ", " ", "y", " ", "=", " ", "]">>

\* [null true -3 1.5 "s"]
DocScalars == <<"[", "n", "u", "l", "l", " ", "t", "r", "u", "e", " ", "-", "3", " ", "1", ".", "5", " ", "\"", "s", "\"", "]">>

\* a = 1 b.c = [false]
DocTwoEntries == <<"a", " ", "=", " ", "1", " ", "b", ".", "c", " ", "=", " ", "[", "f", "a", "l", "s", "e", "]">>

\* {a = [[] [2]]}
DocNestedList == <<"{", "a", " ", "=", " ", "[", "[", "]", " ", "[", "2", "]", "]", "}">>

\* x = y
DocIdentValue == <<"x", " ", "=", " ", "y">>

\* a .b = 1
DocSpacedPath == <<"a", " ", ".", "b", " ", "=", " ", "1">>

\* {"a" = 1}
DocStringKey == <<"{", "\"", "a", "\"", " ", "=", " ", "1", "}">>

\* 1 = 2
DocNumberKey == <<"1", " ", "=", " ", "2">>

\* {a.true = 1}
DocKeywordSegment == <<"{", "a", ".", "t", "r", "u", "e", " ", "=", " ", "1", "}">>

\* a. b = 1
DocSpacedSegment == <<"a", ".", " ", "b", " ", "=", " ", "1">>

\* { variant = 5 }
DocEnumSpaced == <<"{", " ", "v", "a", "r", "i", "a", "n", "t", " ", "=", " ", "5", " ", "}">>

\* {5 = 1}
DocEnumNumber == <<"{", "5", " ", "=", " ", "1", "}">>

Docs ==
    {DocNestedPath, DocColor, DocEmpty, DocBlank,
     DocComment, DocList, DocEnum, DocTagEnum,
     DocEnumUnit, DocEnumTuple, DocEnumStruct, DocEnumExtra,
     DocEnumString, DocBadValue, DocBadValueLine, DocScalars,
     DocTwoEntries, DocNestedList, DocIdentValue, DocSpacedPath,
     DocStringKey, DocNumberKey, DocKeywordSegment, DocSpacedSegment,
     DocEnumSpaced, DocEnumNumber}

-----------------------------------------------------------------------------
(* The Parser's operations, run one at a time by a caller (mode "ops")      *)

NoOp == [op |-> "new", bits |-> 0, pre |-> ParserNew, res |-> None]

OpStep(name, bits, p, res) ==
    /\ mode = "ops"
    /\ parser' = p
    /\ last' = [op |-> name, bits |-> bits, pre |-> parser, res |-> res]
    /\ UNCHANGED <<src, mode, stack, out, err>>

TokenOp(name, r) == OpStep(name, 0, r.p, r.tok)

ValueOp(name, r) == OpStep(name, 0, r.p, r.val)

ResultOp(name, r) == OpStep(name, 0, r.p, r.res)

NextToken == TokenOp("next_token", next_token(parser))
PeekToken == TokenOp("peek_token", peek_token(parser))
NextNoSkip == TokenOp("next_no_skip", next_no_skip(parser))
PeekNoSkip == TokenOp("peek_no_skip", peek_no_skip(parser))
PeekEof == ValueOp("peek_eof", peek_eof(parser))
PeekEndMap == ValueOp("peek_end_map", peek_end_map(parser))
PeekEndList == ValueOp("peek_end_list", peek_end_list(parser))
ParseNull == ResultOp("parse_null", parse_null(parser))
ParseBool == ResultOp("parse_bool", parse_bool(parser))
ParseString == ResultOp("parse_string", parse_string(parser))
ParseFloat == ResultOp("parse_float", parse_float(parser))
ParsePath == ResultOp("parse_path", parse_path(parser))
StartMap == ResultOp("start_map", start_map(parser))
MapDelimiter == ResultOp("map_delimiter", map_delimiter(parser))
EndMap == ResultOp("end_map", end_map(parser))
StartList == ResultOp("start_list", start_list(parser))
EndList == ResultOp("end_list", end_list(parser))
TryParseNull == ResultOp("try_parse_null", try_parse_null(parser))
TryParseBool == ResultOp("try_parse_bool", try_parse_bool(parser))
TryParseString == ResultOp("try_parse_string", try_parse_string(parser))
TryParseUint == ResultOp("try_parse_uint", try_parse_uint(parser))
TryParseInt == ResultOp("try_parse_int", try_parse_int(parser))
TryParseFloat == ResultOp("try_parse_float", try_parse_float(parser))
TryParsePath == ResultOp("try_parse_path", try_parse_path(parser))
TryStartMap == ResultOp("try_start_map", try_start_map(parser))
TryMapDelimiter == ResultOp("try_map_delimiter", try_map_delimiter(parser))
TryStartList == ResultOp("try_start_list", try_start_list(parser))

WidthOp(name, bits, r) == OpStep(name, bits, r.p, r.res)

ParseUint == \E bits \in Widths : WidthOp("parse_uint", bits, parse_uint(parser, bits))

ParseInt == \E bits \in Widths : WidthOp("parse_int", bits, parse_int(parser, bits))

ParserOp ==
    \/ NextToken \/ PeekToken \/ NextNoSkip \/ PeekNoSkip
    \/ PeekEof \/ PeekEndMap \/ PeekEndList
    \/ ParseNull \/ ParseBool \/ ParseString \/ ParseFloat \/ ParsePath
    \/ ParseUint \/ ParseInt
    \/ StartMap \/ MapDelimiter \/ EndMap \/ StartList \/ EndList
    \/ TryParseNull \/ TryParseBool \/ TryParseString \/ TryParseUint
    \/ TryParseInt \/ TryParseFloat \/ TryParsePath
    \/ TryStartMap \/ TryMapDelimiter \/ TryStartList

Init ==
    /\ src \in Docs
    /\ parser = ParserNew
    /\ mode \in {"ops", "de", "top"}
    /\ last = NoOp
    /\ stack = CASE mode = "ops" -> <<>>
                 [] mode = "de" -> <<Seed("Deserializer")>>
                 [] mode = "top" -> <<Seed("Top")>>
    /\ out = <<>>
    /\ err = None

Next == ParserOp \/ Deserialize

Spec == Init /\ [][Next]_vars

-----------------------------------------------------------------------------
(* String literals with one \x or \u{..} escape, and the specification that *)
(* runs the string operations of the Parser over them                       *)

\* the longest digit run written after `\x`
MaxHexDigits == 3

\* the longest digit run written between the braces of `\u{..}`
MaxEscapeDigits == 5

\* every sequence over A of length at most n
SeqsUpTo(A, n) == UNION {[1..k -> A] : k \in 0..n}

\* the characters written after `\x`: hex digits of both cases, and g
HexChars == {"0", "4", "7", "8", "F", "a", "g"}

\* the characters written between the braces
UnicodeChars == {"0", "1", "6", "F"}

\* body between double quotes
Quoted(body) == <<"\"">> \o body \o <<"\"">>

HexInputs == {Quoted(<<"\\", "x">> \o ds) : ds \in SeqsUpTo(HexChars, MaxHexDigits)}

UnicodeInputs ==
    {Quoted(<<"\\", "u", "{">> \o ds \o <<"}">>) :
        ds \in SeqsUpTo(UnicodeChars, MaxEscapeDigits)}

\* "\u{}", "\u{00000041}", "\u{g1}", "\u{41", "\u41}", "\u{D800}",
\* "\u{110000}"
EscapeEdges ==
    {Quoted(<<"\\", "u", "{", "}">>),
     Quoted(<<"\\", "u", "{", "0", "0", "0", "0", "0", "0", "4", "1", "}">>),
     Quoted(<<"\\", "u", "{", "g", "1", "}">>),
     Quoted(<<"\\", "u", "{", "4", "1">>),
     Quoted(<<"\\", "u", "4", "1", "}">>),
     Quoted(<<"\\", "u", "{", "D", "8", "0", "0", "}">>),
     Quoted(<<"\\", "u", "{", "1", "1", "0", "0", "0", "0", "}">>)}

InitStr ==
    /\ src \in HexInputs \cup UnicodeInputs \cup EscapeEdges
    /\ parser = ParserNew
    /\ mode = "ops"
    /\ last = NoOp
    /\ stack = <<>>
    /\ out = <<>>
    /\ err = None

NextStr == ParseString \/ TryParseString \/ PeekToken \/ NextToken

SpecStr == InitStr /\ [][NextStr]_vars

-----------------------------------------------------------------------------
(* Integer literals, and the specification that runs the integer operations *)
(* of the Parser over them                                                   *)

\* the longest digit run of the generated literals
MaxDigits == 3

\* the characters of the generated digit runs: digits of several bases and
\* the separator the lexer takes into a number
DigitChars == {"0", "1", "9", "a", "_"}

Signs == {<<>>, <<"-">>}

Prefixes == {<<>>, <<"0", "x">>, <<"0", "o">>, <<"0", "b">>}

GeneratedLiterals ==
    {sign \o prefix \o ds :
        sign \in Signs, prefix \in Prefixes, ds \in SeqsUpTo(DigitChars, MaxDigits)}

\* n copies of the character c
Repeat(c, n) == [i \in 1..n |-> c]

\* the magnitudes at the edges of the 8, 16, 32 and 64 bit targets
DecimalEdges ==
    {<<"1", "2", "7">>, <<"1", "2", "8">>, <<"1", "2", "9">>,
     <<"2", "5", "5">>, <<"2", "5", "6">>,
     <<"3", "2", "7", "6", "7">>, <<"3", "2", "7", "6", "8">>,
     <<"3", "2", "7", "6", "9">>,
     <<"6", "5", "5", "3", "5">>, <<"6", "5", "5", "3", "6">>,
     <<"2", "1", "4", "7", "4", "8", "3", "6", "4", "7">>,
     <<"2", "1", "4", "7", "4", "8", "3", "6", "4", "8">>,
     <<"2", "1", "4", "7", "4", "8", "3", "6", "4", "9">>,
     <<"4", "2", "9", "4", "9", "6", "7", "2", "9", "5">>,
     <<"4", "2", "9", "4", "9", "6", "7", "2", "9", "6">>,
     <<"9", "2", "2", "3", "3", "7", "2", "0", "3", "6", "8", "5", "4", "7", "7", "5",
       "8", "0", "7">>,
     <<"9", "2", "2", "3", "3", "7", "2", "0", "3", "6", "8", "5", "4", "7", "7", "5",
       "8", "0", "8">>,
     <<"9", "2", "2", "3", "3", "7", "2", "0", "3", "6", "8", "5", "4", "7", "7", "5",
       "8", "0", "9">>,
     <<"1", "8", "4", "4", "6", "7", "4", "4", "0", "7", "3", "7", "0", "9", "5", "5",
       "1", "6", "1", "5">>,
     <<"1", "8", "4", "4", "6", "7", "4", "4", "0", "7", "3", "7", "0", "9", "5", "5",
       "1", "6", "1", "6">>}

\* the same edges of the 64 bit targets written with a base prefix
PrefixedEdges ==
    {<<"0", "x", "7">> \o Repeat("f", 15),
     <<"0", "x", "8">> \o Repeat("0", 15),
     <<"0", "x", "8">> \o Repeat("0", 14) \o <<"1">>,
     <<"0", "x">> \o Repeat("F", 16),
     <<"0", "x", "1">> \o Repeat("0", 16),
     <<"0", "x", "0", "0", "f", "f">>,
     <<"0", "x", "1", "0", "0">>,
     <<"0", "o", "7">> \o Repeat("7", 20),
     <<"0", "o", "1">> \o Repeat("0", 21),
     <<"0", "o", "1">> \o Repeat("7", 21),
     <<"0", "o", "2">> \o Repeat("0", 21),
     <<"0", "o", "9">>,
     <<"0", "o", "3", "7", "7">>,
     <<"0", "o", "4", "0", "0">>,
     <<"0", "b">> \o Repeat("1", 63),
     <<"0", "b", "1">> \o Repeat("0", 63),
     <<"0", "b">> \o Repeat("1", 64),
     <<"0", "b", "1">> \o Repeat("0", 64),
     <<"0", "b", "1", "0", "2">>}

\* 1_000, 0xFF_FF, 0b1010_0101
SeparatedLiterals ==
    {<<"1", "_", "0", "0", "0">>,
     <<"0", "x", "F", "F", "_", "F", "F">>,
     <<"0", "b", "1", "0", "1", "0", "_", "0", "1", "0", "1">>}

IntegerInputs ==
    GeneratedLiterals
    \cup {sign \o m : sign \in Signs, m \in DecimalEdges \cup PrefixedEdges}
    \cup SeparatedLiterals

InitInt ==
    /\ src \in IntegerInputs
    /\ parser = ParserNew
    /\ mode = "ops"
    /\ last = NoOp
    /\ stack = <<>>
    /\ out = <<>>
    /\ err = None

NextInt == ParseUint \/ ParseInt \/ TryParseUint \/ TryParseInt \/ PeekToken

SpecInt == InitInt /\ [][NextInt]_vars

-----------------------------------------------------------------------------
(* Comments, blanks and identifiers, and the specification that reads them  *)
(* token by token in both skip modes                                        *)

\* the longest generated input
MaxLexLen == 5

LexChars == {"/", "\n", " ", "a"}

\* a .b
LexSpacedDot == <<"a", " ", ".", "b">>

\* a.b
LexAdjacentDot == <<"a", ".", "b">>

\* a // c\n.b
LexCommentedDot == <<"a", " ", "/", "/", " ", "c", "\n", ".", "b">>

LexInputs ==
    SeqsUpTo(LexChars, MaxLexLen) \cup {LexSpacedDot, LexAdjacentDot, LexCommentedDot}

InitLex ==
    /\ src \in LexInputs
    /\ parser = ParserNew
    /\ mode = "ops"
    /\ last = NoOp
    /\ stack = <<>>
    /\ out = <<>>
    /\ err = None

NextLex == NextToken \/ PeekToken \/ NextNoSkip \/ PeekNoSkip

SpecLex == InitLex /\ [][NextLex]_vars

-----------------------------------------------------------------------------
(* Number literals with fraction, exponent and sign, and the specification   *)
(* that lexes and parses them                                               *)

\* the longest generated input
MaxNumberLen == 4

NumberChars == {"1", ".", "e", "-", "x", "}"}

\* 1.5e10, 1.5E-3, 1.5e+3, 12.5e1
NumberExamples ==
    {<<"1", ".", "5", "e", "1", "0">>,
     <<"1", ".", "5", "E", "-", "3">>,
     <<"1", ".", "5", "e", "+", "3">>,
     <<"1", "2", ".", "5", "e", "1">>}

NumberInputs == SeqsUpTo(NumberChars, MaxNumberLen) \cup NumberExamples

InitNum ==
    /\ src \in NumberInputs
    /\ parser = ParserNew
    /\ mode = "ops"
    /\ last = NoOp
    /\ stack = <<>>
    /\ out = <<>>
    /\ err = None

NextNum == NextToken \/ PeekToken \/ ParseInt \/ ParseFloat

SpecNum == InitNum /\ [][NextNum]_vars

-----------------------------------------------------------------------------
(* String literals broken by a line end, and the specification that reads   *)
(* the tokens around them in both skip modes                                 *)

\* the longest generated input
MaxLineLen == 5

LineChars == {"\"", "\n", " ", "a"}

LineInputs == SeqsUpTo(LineChars, MaxLineLen)

InitLine ==
    /\ src \in LineInputs
    /\ parser = ParserNew
    /\ mode = "ops"
    /\ last = NoOp
    /\ stack = <<>>
    /\ out = <<>>
    /\ err = None

SpecLine == InitLine /\ [][NextLex]_vars

-----------------------------------------------------------------------------
(* Dotted paths with and without blanks, and the specification that parses  *)
(* them as map keys                                                          *)

\* the longest generated input
MaxPathLen == 4

PathChars == {"a", "b", ".", " ", "="}

\* a.b.a = 1
PathNested == <<"a", ".", "b", ".", "a", " ", "=", " ", "1">>

\* a.b // c\n.a = 1
PathCommented ==
    <<"a", ".", "b", " ", "/", "/", " ", "c", "\n", ".", "a", " ", "=", " ", "1">>

\* ab.b-a  .a
PathLongNames == <<"a", "b", ".", "b", "-", "a", " ", " ", ".", "a">>

\* a.b .
PathSpaced == <<"a", ".", "b", " ", ".">>

PathInputs ==
    SeqsUpTo(PathChars, MaxPathLen)
        \cup {PathNested, PathCommented, PathLongNames, PathSpaced}

InitPath ==
    /\ src \in PathInputs
    /\ parser = ParserNew
    /\ mode = "ops"
    /\ last = NoOp
    /\ stack = <<>>
    /\ out = <<>>
    /\ err = None

NextPath == NextToken \/ PeekToken \/ PeekNoSkip \/ ParsePath \/ MapDelimiter

SpecPath == InitPath /\ [][NextPath]_vars

-----------------------------------------------------------------------------
(* Texts of every token kind, and the specification that reads them with    *)
(* the Cursor alone                                                          *)

\* the longest generated input
MaxReadLen == 3

ReadChars ==
    {"/", "\n", " ", "a", "\"", "\\", "0", "1", "-", ".", "x", "e", "{", "#"}

ReadInputs == SeqsUpTo(ReadChars, MaxReadLen) \cup Docs \cup NumberExamples

\* parser.cursor.read_token(), called on the Parser's public cursor
ReadToken ==
    LET With(token) ==
            OpStep("read_token", 0, [parser EXCEPT !.off = token.end], token)
    IN  With(read_token(parser.off))

InitRead ==
    /\ src \in ReadInputs
    /\ parser = ParserNew
    /\ mode = "ops"
    /\ last = NoOp
    /\ stack = <<>>
    /\ out = <<>>
    /\ err = None

NextRead == ReadToken

SpecRead == InitRead /\ [][NextRead]_vars

-----------------------------------------------------------------------------
(* Quoted texts with backslashes and quotes in any place, and the           *)
(* specification that runs the string operations of the Parser over them     *)

\* the longest generated text after the opening quote
MaxQuoteLen == 4

QuoteChars == {"\"", "\\", "x", "u", "{", "}", "1", "\n"}

\* "\u{\1}", "\u{11\"}", "\x11\\\"", "\\\"1", "\x1\"1"
QuoteExamples ==
    {Quoted(<<"\\", "u", "{", "\\", "1", "}">>),
     Quoted(<<"\\", "u", "{", "1", "1", "\\", "\"", "}">>),
     Quoted(<<"\\", "x", "1", "1", "\\", "\\", "\\", "\"">>),
     Quoted(<<"\\", "\\", "\\", "\"", "1">>),
     Quoted(<<"\\", "x", "1", "\\", "\"", "1">>)}

QuoteInputs ==
    {<<"\"">> \o body : body \in SeqsUpTo(QuoteChars, MaxQuoteLen)} \cup QuoteExamples

InitQuote ==
    /\ src \in QuoteInputs
    /\ parser = ParserNew
    /\ mode = "ops"
    /\ last = NoOp
    /\ stack = <<>>
    /\ out = <<>>
    /\ err = None

SpecQuote == InitQuote /\ [][NextStr]_vars

-----------------------------------------------------------------------------
(* Reference definitions the properties are stated with                     *)

\* the sixteen hex digits in order of value
HexTable ==
    <<"0", "1", "2", "3", "4", "5", "6", "7", "8", "9", "a", "b", "c", "d", "e", "f">>

UpperTable == <<"A", "B", "C", "D", "E", "F">>

\* the value of the digit c written in any base up to 16, or 16 when c is
\* no digit at all
Nibble(c) ==
    CASE \E i \in 1..16 : HexTable[i] = c -> (CHOOSE i \in 1..16 : HexTable[i] = c) - 1
      [] \E i \in 1..6 : UpperTable[i] = c -> (CHOOSE i \in 1..6 : UpperTable[i] = c) + 9
      [] OTHER -> 16

\* the number a digit string denotes in base 16, most significant digit first
RECURSIVE BigEndian(_)
BigEndian(ds) ==
    IF ds = <<>> THEN 0
    ELSE BigEndian(SubSeq(ds, 1, Len(ds) - 1)) * 16 + Nibble(ds[Len(ds)])

\* v is a Unicode scalar value
ScalarValue(v) == v < 55296 \/ (v > 57343 /\ v < 1114112)

\* parse_string has just run on a source that is one literal of the form
\* "<backslash><letter><rest>"
ParsedEscape(letter) ==
    /\ last.op = "parse_string"
    /\ last.pre = ParserNew
    /\ Len(src) >= 4
    /\ SubSeq(src, 1, 3) = <<"\"", "\\", letter>>
    /\ src[Len(src)] = "\""

\* a 64-bit word divided by a small d: [q, r], by schoolbook long division
\* from the most significant limb down
DivSmall(n, d) ==
    LET c4 == n[4]
        c3 == (c4 % d) * 65536 + n[3]
        c2 == (c3 % d) * 65536 + n[2]
        c1 == (c2 % d) * 65536 + n[1]
    IN  [q |-> <<c1 \div d, c2 \div d, c3 \div d, c4 \div d>>, r |-> c1 % d]

\* digit values without their leading zeros
Canon(vals) ==
    LET Zeros(z) == SubSeq(vals, z + 1, Len(vals))
    IN  Zeros(Cardinality({i \in 1..Len(vals) : \A j \in 1..i : vals[j] = 0}))

\* how many digits of base b are split off per division: the largest k
\* with b^k <= 2^15
ChunkLen(b) == CASE b = 2 -> 15 [] b = 8 -> 5 [] b = 10 -> 4 [] b = 16 -> 3

\* the digit values of the word n in base b, most significant first, in
\* groups of ChunkLen(b) digits (so possibly with leading zeros)
RECURSIVE Chunks(_, _)
Chunks(n, b) ==
    IF n = <<0, 0, 0, 0>> THEN <<>>
    ELSE LET Step(d) ==
                 Chunks(d.q, b)
                 \o [i \in 1..ChunkLen(b) |-> (d.r \div (b ^ (ChunkLen(b) - i))) % b]
         IN  Step(DivSmall(n, b ^ ChunkLen(b)))

\* the digit values of the word n written in base b, most significant
\* first and without leading zeros (zero is the empty sequence)
ToDigits(n, b) == Canon(Chunks(n, b))

\* a <= b for numbers given by their digit values without leading zeros
LeDigits(a, b) ==
    \/ Len(a) < Len(b)
    \/ /\ Len(a) = Len(b)
       /\ \/ a = b
          \/ \E i \in 1..Len(a) : a[i] < b[i] /\ \A j \in 1..(i - 1) : a[j] = b[j]

\* 0 - n modulo 2^64, by subtraction with borrow
Minus(n) ==
    LET b1 == IF n[1] = 0 THEN 0 ELSE 1
        b2 == IF n[2] + b1 = 0 THEN 0 ELSE 1
        b3 == IF n[3] + b2 = 0 THEN 0 ELSE 1
    IN  <<(65536 - n[1]) % 65536, (65536 - n[2] - b1) % 65536,
          (65536 - n[3] - b2) % 65536, (65536 - n[4] - b3) % 65536>>

\* the largest value of the unsigned target of the given width
MaxUnsigned(bits) ==
    CASE bits = 8 -> <<255, 0, 0, 0>>
      [] bits = 16 -> <<65535, 0, 0, 0>>
      [] bits = 32 -> <<65535, 65535, 0, 0>>
      [] bits = 64 -> <<65535, 65535, 65535, 65535>>

\* 2^63 - 1 and 2^63
MaxI64 == <<65535, 65535, 65535, 32767>>
MinI64Magnitude == <<0, 0, 0, 32768>>

\* the token an operation that has just run was looking at
LastToken == peek_token(last.pre).tok

LastText == token_src(LastToken.token)

\* the literal without its sign
Unsigned(text) == IF text # <<>> /\ text[1] = "-" THEN Tail(text) ELSE text

\* the base a literal is written in, read off its prefix
BaseOf(text) ==
    CASE Len(text) >= 2 /\ SubSeq(text, 1, 2) = <<"0", "x">> -> 16
      [] Len(text) >= 2 /\ SubSeq(text, 1, 2) = <<"0", "o">> -> 8
      [] Len(text) >= 2 /\ SubSeq(text, 1, 2) = <<"0", "b">> -> 2
      [] OTHER -> 10

\* the digit values of a literal after sign and base prefix
DigitValues(text) ==
    LET Body(u) == IF BaseOf(u) = 10 THEN u ELSE SubSeq(u, 3, Len(u))
        Values(ds) == [i \in 1..Len(ds) |-> Nibble(ds[i])]
    IN  Values(Body(Unsigned(text)))

\* the literal has at least one digit and all its digits belong to its base
ValidDigits(text) ==
    /\ DigitValues(text) # <<>>
    /\ \A i \in 1..Len(DigitValues(text)) : DigitValues(text)[i] < BaseOf(Unsigned(text))

\* the number the literal's digits denote, as digit values without leading zeros
Magnitude(text) == Canon(DigitValues(text))

\* the word r, read as i64, is minus the number with the digits m in base b
IsMinus(r, m, b) ==
    IF m = <<>> THEN r = <<0, 0, 0, 0>>
    ELSE r[4] >= 32768 /\ ToDigits(Minus(r), b) = m

-----------------------------------------------------------------------------
(* Properties                                                               *)

\* the digits between the braces of the literal "\u{..}"
BracedDigits == SubSeq(src, 5, Len(src) - 2)

\* C1: parse_string on a terminated String token "\u{H..H}" with 1 to 6 hex
\* digits yields the Unicode scalar whose code point is the big-endian
\* composition of all the digits between the braces; "\u{1F600}" yields
\* U+1F600.  (The code does not do this.)
C1_UnicodeEscapeComposesAllDigits ==
    (/\ ParsedEscape("u")
     /\ Len(src) >= 7
     /\ src[4] = "{"
     /\ src[Len(src) - 1] = "}"
     /\ Len(BracedDigits) \in 1..6
     /\ \A i \in 1..Len(BracedDigits) : Nibble(BracedDigits[i]) < 16
     /\ ScalarValue(BigEndian(BracedDigits)))
    => last.res = Ok(<<BigEndian(BracedDigits)>>)

\* the characters after `\x` up to the closing quote
HexTail == SubSeq(src, 4, Len(src) - 1)

\* C2: parse_string accepts \xHH only with two hex digits of value at most
\* 0x7F and then yields the character with that value (followed by the rest
\* of the literal); a first digit above 7, a missing digit or a non-hex
\* digit fails with InvalidEscape.
C2_HexEscape ==
    ParsedEscape("x") =>
        IF /\ Len(HexTail) >= 2
           /\ Nibble(HexTail[1]) < 16
           /\ Nibble(HexTail[2]) < 16
           /\ Nibble(HexTail[1]) * 16 + Nibble(HexTail[2]) <= 127
        THEN last.res = Ok(<<Nibble(HexTail[1]) * 16 + Nibble(HexTail[2])>>
                           \o Codes(SubSeq(HexTail, 3, Len(HexTail))))
        ELSE /\ ~last.res.ok
             /\ last.res.err.kind.k = "InvalidEscape"
             /\ last.res.err.token = peek_token(ParserNew).tok

\* "\x4a" has been parsed to the one character U+004A
C2_Witness ==
    /\ src = <<"\"", "\\", "x", "4", "a", "\"">>
    /\ last.op = "parse_string"
    /\ last.res = Ok(<<74>>)

\* -9223372036854775808 and 9223372036854775808
MinI64Literal ==
    <<"-", "9", "2", "2", "3", "3", "7", "2", "0", "3", "6", "8", "5", "4", "7", "7", "5",
      "8", "0", "8">>

\* C3: parse_int for a 64-bit signed target returns exactly i64::MIN for
\* -9223372036854775808 and fails with InvalidInteger for
\* 9223372036854775808; a negative literal of magnitude m succeeds with -m
\* iff m <= 2^63, a non-negative literal succeeds with its value iff that
\* is <= 2^63 - 1, and every other one fails with InvalidInteger.
C3_ParseIntBounds ==
    (/\ last.op = "parse_int"
     /\ last.bits = 64
     /\ LastToken.token.kind.k = "Integer"
     /\ ValidDigits(LastText))
    => LET b == BaseOf(Unsigned(LastText))
           m == Magnitude(LastText)
       IN  /\ IF LastText[1] = "-"
              THEN IF LeDigits(m, ToDigits(MinI64Magnitude, b))
                   THEN last.res.ok /\ IsMinus(last.res.val, m, b)
                   ELSE last.res = Err(ParseError(LastToken, ParseErrorKind("InvalidInteger")))
              ELSE IF LeDigits(m, ToDigits(MaxI64, b))
                   THEN /\ last.res.ok
                        /\ last.res.val[4] < 32768
                        /\ ToDigits(last.res.val, b) = m
                   ELSE last.res = Err(ParseError(LastToken, ParseErrorKind("InvalidInteger")))
           /\ LastText = MinI64Literal => last.res = Ok(MinI64Magnitude)
           /\ LastText = Tail(MinI64Literal) => ~last.res.ok

\* parse_int::<i64> has returned i64::MIN for -9223372036854775808
C3_Witness ==
    /\ src = MinI64Literal
    /\ last.op = "parse_int"
    /\ last.bits = 64
    /\ last.res = Ok(MinI64Magnitude)

\* C4: for an unsigned Integer token written in decimal, hex, octal or
\* binary whose digits are valid in that base and whose value fits the
\* target width, parse_uint returns exactly the value of the digits after
\* the prefix in that radix; a value that does not fit, an empty digit span
\* or a digit not valid in the radix fails with InvalidInteger.
C4_ParseUintValue ==
    (/\ last.op = "parse_uint"
     /\ LastToken.token.kind.k = "Integer"
     /\ ~LastToken.token.kind.sign)
    => IF /\ ValidDigits(LastText)
          /\ LeDigits(Magnitude(LastText),
                      ToDigits(MaxUnsigned(last.bits), BaseOf(LastText)))
       THEN /\ last.res.ok
            /\ \A i \in 1..4 : last.res.val[i] \in 0..65535
            /\ ToDigits(last.res.val, BaseOf(LastText)) = Magnitude(LastText)
       ELSE last.res = Err(ParseError(LastToken, ParseErrorKind("InvalidInteger")))

\* parse_uint::<u64> has returned 2^64 - 1 for 0xFFFFFFFFFFFFFFFF
C4_Witness ==
    /\ src = <<"0", "x">> \o Repeat("F", 16)
    /\ last.op = "parse_uint"
    /\ last.bits = 64
    /\ last.res = Ok(MaxUnsigned(64))

\* parse_uint has rejected 0o9, whose digit is not octal
C4_WitnessInvalidDigit ==
    /\ src = <<"0", "o", "9">>
    /\ last.op = "parse_uint"
    /\ last.res = Err(ParseError(LastToken, ParseErrorKind("InvalidInteger")))
    /\ token_src(LastToken.token) = src

-----------------------------------------------------------------------------
(* Properties of the try_ forms and of the deserializer                     *)

\* the next token a caller in skip mode will be given, whether or not it
\* is already buffered as the lookahead
Upcoming(p) == next_token(p).tok

\* going from p to q consumed exactly the one token that was upcoming at p
ConsumedOne(p, q) == Upcoming(q) = Upcoming(next_token(p).p)

\* going from p to q consumed exactly the two tokens that were upcoming at p
ConsumedTwo(p, q) == Upcoming(q) = Upcoming(next_token(next_token(p).p).p)

TryOps ==
    {"try_parse_null", "try_parse_bool", "try_parse_uint", "try_parse_int",
     "try_parse_float", "try_parse_string", "try_parse_path", "try_start_map",
     "try_map_delimiter", "try_start_list"}

\* the try_ operation of the given name run on p
TryResult(name, p) ==
    CASE name = "try_parse_null" -> try_parse_null(p)
      [] name = "try_parse_bool" -> try_parse_bool(p)
      [] name = "try_parse_uint" -> try_parse_uint(p)
      [] name = "try_parse_int" -> try_parse_int(p)
      [] name = "try_parse_float" -> try_parse_float(p)
      [] name = "try_parse_string" -> try_parse_string(p)
      [] name = "try_parse_path" -> try_parse_path(p)
      [] name = "try_start_map" -> try_start_map(p)
      [] name = "try_map_delimiter" -> try_map_delimiter(p)
      [] name = "try_start_list" -> try_start_list(p)

\* a failed try_ t before the try_ u changes nothing of what u does
SameAfterFailed(t, u, p) ==
    LET After(ft) ==
            (ft.res = None /\ TryResult(u, p).res # None)
            => TryResult(u, ft.p) = TryResult(u, p)
    IN  After(TryResult(t, p))

\* C5: every try_parse_X / try_start_X that reports no match consumes
\* nothing: the following next_token returns the token a peek_token before
\* the call would have returned, and a failed try_ followed by a matching
\* one (hence any chain of failed ones) parses exactly as the matching call
\* alone.
C5_FailedTryConsumesNothing ==
    mode = "ops" =>
        /\ (last.op \in TryOps /\ last.res = None)
           => /\ next_token(parser).tok = peek_token(last.pre).tok
              /\ Upcoming(parser) = Upcoming(last.pre)
        /\ \A t \in TryOps : \A u \in TryOps : SameAfterFailed(t, u, parser)

\* try_parse_bool has just failed on `color = "red"`, nothing was buffered
\* before it, and try_parse_path matches next
C5_Witness ==
    /\ mode = "ops"
    /\ src = DocColor
    /\ last.op = "try_parse_bool"
    /\ last.res = None
    /\ last.pre = ParserNew
    /\ try_parse_path(parser).res = Some(Ok(MapPath(<<"c", "o", "l", "o", "r">>, <<>>)))

\* the deserialization has returned to its caller without an error
Done == mode \in {"de", "top"} /\ stack = <<>> /\ err = None

NoEvent(name) == \A i \in 1..Len(out) : out[i].e # name

\* the visitor asked for no enum
NoEnums == NoEvent("enum") /\ NoEvent("variant")

IsCore(ev) == ev.e # "some"

\* what the visitor was handed, without the markers of visit_some
Core == SelectSeq(out, IsCore)

IntegerEvents == {"u8", "u16", "u32", "u64", "i8", "i16", "i32", "i64"}

\* ev hands over the small non-negative integer n
IsNumber(ev, n) == ev.e \in IntegerEvents /\ ev.v = <<n, 0, 0, 0>>

MapEvent == Event("map", <<>>)
EndMapEvent == Event("end_map", <<>>)
KeyEvent(text) == Event("key", Codes(text))

\* an error was returned, and by a request for a value (a seed), that is,
\* never by a request for a key, an element or an end
OnlyValueErrors == err # None => (stack # <<>> /\ Top.f = "seed")

\* the second key request of a level of a dotted path ends that level's map
\* and leaves the parser as it is
PathLevelEnds ==
    (AtMap("PathMap", "key") /\ Top.done)
    => /\ parser' = parser
       /\ out' = Append(out, EndMapEvent)
       /\ stack' = Pop
       /\ err' = err

NestedPathTrace ==
    (src = DocNestedPath /\ mode = "de" /\ NoEnums)
    => /\ OnlyValueErrors
       /\ Done => /\ Len(Core) = 10
                  /\ SubSeq(Core, 1, 6) =
                         <<MapEvent, KeyEvent(<<"a">>), MapEvent, KeyEvent(<<"b">>),
                           MapEvent, KeyEvent(<<"c">>)>>
                  /\ IsNumber(Core[7], 1)
                  /\ SubSeq(Core, 8, 10) = <<EndMapEvent, EndMapEvent, EndMapEvent>>

\* C6: for a key that is a dotted path with n trailing segments the value's
\* visitor observes n nested singleton maps, one key/value pair per level in
\* path order, with the value after the single `=` innermost ({a.b.c = 1}
\* is a: {b: {c: 1}}); at each level the second key request returns
\* end-of-map without consuming a token.
C6_DottedPathNests == []NestedPathTrace /\ [][PathLevelEnds]_vars

\* {a.b.c = 1} has been deserialized by shape inference
C6_Witness ==
    /\ src = DocNestedPath
    /\ mode = "de"
    /\ Done
    /\ out = <<MapEvent, KeyEvent(<<"a">>), MapEvent, KeyEvent(<<"b">>), MapEvent,
               KeyEvent(<<"c">>), Event("u64", <<1, 0, 0, 0>>),
               EndMapEvent, EndMapEvent, EndMapEvent>>

\* the key request of the top-level map: end-of-map exactly when the next
\* token that is not skipped is Eof, and otherwise the key it names (or the
\* error of a token that is no key)
TopLevelKeyRequest ==
    AtMap("Top", "key")
    => IF Upcoming(parser).token.kind = TokenKind("Eof")
       THEN out' = Append(out, EndMapEvent) /\ stack' = Pop /\ err' = None
       ELSE \/ err' # None /\ out' = out
            \/ /\ Upcoming(parser).token.kind = TokenKind("Ident")
               /\ out' = Append(out, KeyEvent(token_src(Upcoming(parser).token)))
               /\ err' = None

\* the top-level map opens without any token being read
TopLevelOpens ==
    AtSeed("Top")
    => parser' = parser /\ out' = Append(out, MapEvent) /\ err' = None

EmptyDocuments == {DocEmpty, DocBlank, DocComment}

TopLevelDocuments ==
    mode = "top"
    => /\ src \in EmptyDocuments
          => /\ err = None
             /\ out \in {<<>>, <<MapEvent>>, <<MapEvent, EndMapEvent>>}
             /\ stack = <<>> => out = <<MapEvent, EndMapEvent>>
       /\ (src = DocColor /\ NoEnums)
          => /\ OnlyValueErrors
             /\ Done => Core = <<MapEvent, KeyEvent(<<"c", "o", "l", "o", "r">>),
                                 Event("string", Codes(<<"r", "e", "d">>)),
                                 EndMapEvent>>
       /\ Done => /\ Upcoming(parser).token.kind = TokenKind("Eof")
                  /\ out[1] = MapEvent
                  /\ out[Len(out)] = EndMapEvent

\* C7: TopDeserializer treats the whole input as an implicit map without
\* braces: entries are produced until the next non-skipped token is Eof,
\* where the key request returns end-of-map; an empty, blank or comment-only
\* input is a valid document of no entries and `color = "red"` one of one.
C7_TopLevelImplicitMap ==
    []TopLevelDocuments /\ [][TopLevelKeyRequest /\ TopLevelOpens]_vars

\* `color = "red"` has been deserialized as a top-level document
C7_Witness ==
    /\ src = DocColor
    /\ mode = "top"
    /\ Done
    /\ out = <<MapEvent, KeyEvent(<<"c", "o", "l", "o", "r">>),
               Event("string", <<114, 101, 100>>), EndMapEvent>>

SeqEvent == Event("seq", <<>>)
EndSeqEvent == Event("end_seq", <<>>)

\* an element request: a `]` is consumed and ends the sequence, anything
\* else is left where it is and one value is delegated
ElementRequest ==
    (Running /\ Top.f = "seq")
    => IF Upcoming(parser).token.kind = TokenKind("EndSquare")
       THEN /\ out' = Append(out, EndSeqEvent)
            /\ stack' = Pop
            /\ err' = None
            /\ ConsumedOne(parser, parser')
       ELSE /\ out' = out
            /\ stack' = Append(stack, Seed("Deserializer"))
            /\ err' = None
            /\ Upcoming(parser') = Upcoming(parser)

ListTrace ==
    (src = DocList /\ mode = "de" /\ NoEnums)
    => /\ OnlyValueErrors
       /\ Done => /\ Len(Core) = 5
                  /\ Core[1] = SeqEvent
                  /\ \A i \in 1..3 : IsNumber(Core[i + 1], i)
                  /\ Core[5] = EndSeqEvent
                  /\ parser.off = Len(src)
                  /\ parser.lookahead = None

\* C8: a sequence is `[`, values separated only by adjacency or skipped
\* whitespace, and `]`: each element request first checks for `]` and, if
\* present, consumes it and reports the end, otherwise delegates exactly one
\* value; [1 2 3] yields 1, 2, 3 in order and leaves the parser after `]`.
C8_SequenceElements == []ListTrace /\ [][ElementRequest]_vars

\* [1 2 3] has been deserialized by shape inference; the parser is after `]`
C8_Witness ==
    /\ src = DocList
    /\ mode = "de"
    /\ Done
    /\ out = <<SeqEvent, Event("u64", <<1, 0, 0, 0>>), Event("u64", <<2, 0, 0, 0>>),
               Event("u64", <<3, 0, 0, 0>>), EndSeqEvent>>
    /\ parser.off = 7
    /\ parser.lookahead = None

EnumEvent == Event("enum", <<>>)
EndEnumEvent == Event("end_enum", <<>>)

\* deserialize_enum taking the map form consumes `{` and nothing else
EnumOpens ==
    (AtSeed("Deserializer") /\ out' = Append(out, EnumEvent))
    => /\ Upcoming(parser).token.kind = TokenKind("StartCurly")
       /\ ConsumedOne(parser, parser')
       /\ stack' = Pop \o <<EnumEnd, EnumFrame>>

\* the variant request consumes one identifier and hands over its text
EnumVariant ==
    (Running /\ Top.f = "enum" /\ Top.want = "variant" /\ err' = None)
    => /\ Upcoming(parser).token.kind = TokenKind("Ident")
       /\ out' = Append(out, Event("variant", Codes(token_src(Upcoming(parser).token))))
       /\ ConsumedOne(parser, parser')

\* the payload request consumes `=` and then dispatches by the arity asked
EnumPayload ==
    (AtVariant /\ err' = None)
    => /\ Upcoming(parser).token.kind = TokenKind("Equal")
       /\ \/ /\ out' = Append(out, Event("unit_variant", <<>>))
             /\ Upcoming(next_token(parser).p).token.kind = KKeyword("Null")
             /\ ConsumedTwo(parser, parser')
             /\ stack' = Pop
          \/ /\ out' = Append(out, Event("newtype_variant", <<>>))
             /\ ConsumedOne(parser, parser')
             /\ stack' = Append(Pop, Seed("Deserializer"))
          \/ /\ out' = out \o <<Event("tuple_variant", <<>>), SeqEvent>>
             /\ Upcoming(next_token(parser).p).token.kind = TokenKind("StartSquare")
             /\ ConsumedTwo(parser, parser')
             /\ stack' = Append(Pop, SeqFrame)
          \/ /\ out' = out \o <<Event("struct_variant", <<>>), MapEvent>>
             /\ Upcoming(next_token(parser).p).token.kind = TokenKind("StartCurly")
             /\ ConsumedTwo(parser, parser')
             /\ stack' = Append(Pop, MapFrame("Deserializer"))

\* after the payload a `}` is consumed; any other token is ExpectedMapEnd
EnumCloses ==
    (Running /\ Top.f = "enum_end")
    => IF Upcoming(parser).token.kind = TokenKind("EndCurly")
       THEN /\ out' = Append(out, EndEnumEvent)
            /\ stack' = Pop
            /\ err' = None
            /\ ConsumedOne(parser, parser')
       ELSE /\ out' = out
            /\ err' = Some(ParseErr(ParseError(Upcoming(parser),
                                               ParseErrorKind("ExpectedMapEnd"))))

EnumTrace ==
    (mode = "de" /\ Core # <<>> /\ Core[1] = EnumEvent)
    => /\ (src = DocEnum /\ Done)
          => /\ Len(Core) = 5
             /\ SubSeq(Core, 1, 3) =
                    <<EnumEvent,
                      Event("variant", Codes(<<"v", "a", "r", "i", "a", "n", "t">>)),
                      Event("newtype_variant", <<>>)>>
             /\ IsNumber(Core[4], 5)
             /\ Core[5] = EndEnumEvent
       /\ src = DocEnumExtra
          => /\ ~Done
             /\ (Top.f = "enum_end" /\ err # None)
                => err = Some(ParseErr(ParseError(
                           SpanToken([kind |-> KInteger(FALSE, "Dec"),
                                      start |-> 7, end |-> 8], 0, 7),
                           ParseErrorKind("ExpectedMapEnd"))))

\* C9: deserialize_enum on the map form consumes, in order, `{`, one
\* identifier naming the variant, `=`, the payload dispatched by the arity
\* (Null for a unit variant, one ordinary value for a single payload, a
\* sequence for a tuple, a map for a struct) and finally `}`;
\* {variant = 5} takes the single-payload path for `variant` with 5, and any
\* token other than `}` after the payload fails with ExpectedMapEnd.
C9_EnumMapForm ==
    []EnumTrace /\ [][EnumOpens /\ EnumVariant /\ EnumPayload /\ EnumCloses]_vars

\* {variant = 5} has been deserialized as an enum with a single payload
C9_Witness ==
    /\ src = DocEnum
    /\ mode = "de"
    /\ Done
    /\ out = <<EnumEvent, Event("variant", <<118, 97, 114, 105, 97, 110, 116>>),
               Event("newtype_variant", <<>>), Event("u64", <<5, 0, 0, 0>>),
               EndEnumEvent>>

\* the number of newlines before offset o, and the distance of o from the
\* last of them (or from the start of the input)
LineOf(o) == Cardinality({i \in 1..o : src[i] = "\n"})

ColOf(o) ==
    LET nl == {i \in 1..o : src[i] = "\n"}
    IN  IF nl = {} THEN o ELSE o - (CHOOSE i \in nl : \A j \in nl : j <= i)

\* the kinds deserialize_any takes as the start of a value
ValueStart(kind) ==
    kind.k \in {"Keyword", "Integer", "Float", "String", "StartSquare", "StartCurly"}

\* the token with the line and column of its first character
Located(tok) == SpanToken(tok.token, LineOf(tok.token.start), ColOf(tok.token.start))

IsUnknownToken(e) ==
    /\ e # None
    /\ e[1].kind = "Parse"
    /\ e[1].err.kind = ParseErrorKind("UnknownToken")

\* an UnknownToken error is returned by a value request, names the token
\* that was upcoming and places it at its first character
UnknownTokenRaised ==
    (Running /\ IsUnknownToken(err'))
    => /\ Top.f = "seed"
       /\ ~ValueStart(Upcoming(parser).token.kind)
       /\ err'[1].err.token = Located(Upcoming(parser))

UnknownTokenPlaced ==
    /\ (AtSeed("Deserializer") /\ ~ValueStart(Upcoming(parser).token.kind))
       => error(peek_token(parser).p, ParseErrorKind("UnknownToken")).err
              = ParseError(Located(Upcoming(parser)), ParseErrorKind("UnknownToken"))
    /\ (src = DocBadValue /\ mode = "top" /\ IsUnknownToken(err))
       => err[1].err.token =
              SpanToken([kind |-> TokenKind("EndCurly"), start |-> 4, end |-> 5], 0, 4)

\* C10: when a value is requested by shape inference and the next
\* non-skipped token cannot start a value, the parse fails with UnknownToken
\* whose token is that offending token and whose line/col are the 0-indexed
\* line and column of its first character (line 0, col 4 for `x = }`).
C10_UnknownTokenPosition == []UnknownTokenPlaced /\ [][UnknownTokenRaised]_vars

\* `x = }` has failed at the `}`, line 0, col 4
C10_Witness ==
    /\ src = DocBadValue
    /\ mode = "top"
    /\ err = Some(ParseErr(ParseError(
                 SpanToken([kind |-> TokenKind("EndCurly"), start |-> 4, end |-> 5], 0, 4),
                 ParseErrorKind("UnknownToken"))))

-----------------------------------------------------------------------------
(* Properties of the lexer and of the lookahead                             *)

TokenOps == {"next_token", "peek_token", "next_no_skip", "peek_no_skip"}

\* a token operation has just returned a line comment that ends in a newline
ReturnedComment ==
    /\ last.op \in TokenOps
    /\ last.res.token.kind = TokenKind("Comment")
    /\ src[last.res.token.end] = "\n"

\* the comment is the text from `//` up to and including the first newline
\* after it
CommentSpansLine ==
    ReturnedComment
    => LET With(text) ==
               /\ SubSeq(text, 1, 2) = <<"/", "/">>
               /\ {i \in 1..Len(text) : text[i] = "\n"} = {Len(text)}
       IN  With(SubSeq(src, last.res.token.start + 1, last.res.token.end))

\* reading the comment from the input moves the parser to column 0 of the
\* next line
CommentAdvancesOneLine ==
    (/\ ReturnedComment
     /\ last.op = "next_no_skip"
     /\ last.pre.lookahead = None)
    => /\ parser.line = last.res.line + 1
       /\ parser.col = 0
       /\ parser.off = last.res.token.end

\* every token is reported at the line and column of its first character
TokenPlaced ==
    last.op \in TokenOps
    => /\ last.res.line = LineOf(last.res.token.start)
       /\ last.res.col = ColOf(last.res.token.start)

\* C11: a line comment ended by a newline is one Comment token that
\* includes the newline; consuming it advances the line by exactly 1 and
\* resets col to 0, so every token after it is reported at the line and
\* column of its first character: the newline is never counted twice.
C11_CommentNewlineCountedOnce ==
    CommentSpansLine /\ CommentAdvancesOneLine /\ TokenPlaced

\* in `//\n a` the identifier after the comment and one blank has been
\* returned at line 1, col 1
C11_Witness ==
    /\ src = <<"/", "/", "\n", " ", "a">>
    /\ last.op = "next_token"
    /\ last.pre.off = 0
    /\ last.res = SpanToken([kind |-> TokenKind("Ident"), start |-> 4, end |-> 5], 1, 1)

-----------------------------------------------------------------------------
(* Properties of map keys                                                    *)

\* the visitor's next request is for a key: an entry of a map that has not
\* ended, or the variant name of an enum
KeyPosition ==
    /\ Running
    /\ \/ Top.f = "enum" /\ Top.want = "variant"
       \/ /\ Top.f = "map" /\ Top.want = "key"
          /\ CASE Top.de = "Deserializer" ->
                      Upcoming(parser).token.kind # TokenKind("EndCurly")
                 [] Top.de = "Top" -> Upcoming(parser).token.kind # TokenKind("Eof")
                 [] Top.de = "PathMap" -> ~Top.done

\* a key that follows blanks may be separated from what came before it; a
\* path segment and a variant name are read right where the parser stands
KeyAfterBlanks == Top.f = "map" /\ Top.de \in {"Deserializer", "Top"}

\* the token in key position
KeyToken ==
    IF KeyAfterBlanks THEN Upcoming(parser)
    ELSE SpanToken(read_token(parser.off), LineOf(parser.off), ColOf(parser.off))

\* nothing is buffered when a path segment or a variant name is requested
KeyPositionUnbuffered ==
    (KeyPosition /\ ~KeyAfterBlanks) => parser.lookahead = None

\* a key request takes an Ident and hands over its text, and refuses any
\* other token with ExpectedIdent, leaving the token unread
KeyRequest ==
    KeyPosition
    => IF KeyToken.token.kind = TokenKind("Ident")
       THEN /\ err' = None
            /\ out' = Append(out, Event(IF Top.f = "enum" THEN "variant" ELSE "key",
                                         Codes(token_src(KeyToken.token))))
            /\ parser'.lookahead = None
            /\ parser'.off = KeyToken.token.end
       ELSE /\ err' = Some(ParseErr(ParseError(KeyToken, ParseErrorKind("ExpectedIdent"))))
            /\ out' = out
            /\ peek_no_skip(parser').tok = KeyToken
            /\ parser'.off \in {parser.off, KeyToken.token.end}

\* C12: in key position (braced map, top-level document, dotted-path level,
\* enum variant name) only an Ident token is accepted and its source text
\* delivered; any other token fails with ExpectedIdent carrying that token,
\* and the token is not consumed.
C12_KeysAreIdents == []KeyPositionUnbuffered /\ [][KeyRequest]_vars

\* {"a" = 1} has failed at the string in key position
C12_Witness ==
    /\ src = DocStringKey
    /\ mode = "de"
    /\ out = <<MapEvent>>
    /\ err = Some(ParseErr(ParseError(
                 SpanToken([kind |-> KString(TRUE), start |-> 1, end |-> 4], 0, 1),
                 ParseErrorKind("ExpectedIdent"))))

-----------------------------------------------------------------------------
(* Properties of the keyword operations                                     *)

\* the operation that has just run consumed the token that was upcoming
\* and failed naming the given kind
FailedNaming(kind) ==
    last.res = Err(ParseError(Upcoming(last.pre), ParseErrorKind(kind)))

\* C13: parse_null on a token that is not the `null` keyword fails with a
\* ParseError of kind ExpectedNull, and parse_bool on a token that is
\* neither `true` nor `false` with ExpectedBool, each carrying the consumed
\* offending token.
C13_FailureNamesExpected ==
    /\ (/\ last.op = "parse_null"
        /\ Upcoming(last.pre).token.kind # KKeyword("Null"))
       => FailedNaming("ExpectedNull")
    /\ (/\ last.op = "parse_bool"
        /\ Upcoming(last.pre).token.kind \notin {KKeyword("True"), KKeyword("False")})
       => FailedNaming("ExpectedBool")

-----------------------------------------------------------------------------
(* Properties of number lexing                                              *)

\* the length of the run of decimal digits of src that starts at index i
\* (1-based)
DigitRun(i) ==
    Cardinality({j \in i..Len(src) : \A k \in i..j : src[k] \in DecDigit})

\* src[i] exists and is one of the characters of C
CharIn(i, C) == i <= Len(src) /\ src[i] \in C

\* the input starts with an integer part, a `.` and a fraction, each of at
\* least one digit; the index after the fraction
FractionEnd ==
    IF /\ DigitRun(1) >= 1
       /\ CharIn(DigitRun(1) + 1, {"."})
       /\ DigitRun(DigitRun(1) + 2) >= 1
    THEN DigitRun(1) + 2 + DigitRun(DigitRun(1) + 2)
    ELSE 0

\* the index of the first exponent digit after the fraction, or 0 when no
\* exponent (`e`/`E`, optional sign, at least one digit) follows it
ExponentDigits ==
    LET At(e) ==
            IF e = 0 \/ ~CharIn(e, {"e", "E"}) THEN 0
            ELSE IF CharIn(e + 1, {"+", "-"}) /\ DigitRun(e + 2) >= 1 THEN e + 2
            ELSE IF DigitRun(e + 1) >= 1 THEN e + 1
            ELSE 0
    IN  At(FractionEnd)

\* the first token of the input has just been read
ReadFirst == last.op = "next_token" /\ last.pre = ParserNew

\* C14: an integer part followed by `.`, at least one decimal digit, then
\* `e`/`E`, an optional sign and digits is a single Float token spanning
\* the whole literal, and the next token starts after the exponent digits.
C14_FloatTakesExponent ==
    (ReadFirst /\ ExponentDigits # 0)
    => LET With(end) ==
               /\ last.res.token = [kind |-> TokenKind("Float"), start |-> 0, end |-> end]
               /\ parser.off = end
       IN  With(ExponentDigits - 1 + DigitRun(ExponentDigits))

\* C15: a decimal integer immediately followed by `.` and then a non-digit
\* or the end of the input lexes as an Integer token that does not include
\* the `.`, and the `.` is the next (Dot) token.
C15_DotNeedsDigit ==
    (/\ ReadFirst
     /\ DigitRun(1) >= 1
     /\ CharIn(DigitRun(1) + 1, {"."})
     /\ ~CharIn(DigitRun(1) + 2, DecDigit))
    => /\ last.res.token =
              [kind |-> KInteger(FALSE, "Dec"), start |-> 0, end |-> DigitRun(1)]
       /\ Upcoming(parser).token =
              [kind |-> TokenKind("Dot"), start |-> DigitRun(1), end |-> DigitRun(1) + 1]

\* the token that is exactly a `-` at the start of the input
LoneMinus == SpanToken([kind |-> KInteger(TRUE, "Dec"), start |-> 0, end |-> 1], 0, 0)

\* C16: a `-` followed by the end of the input or by a character that is
\* no digit lexes as a signed decimal Integer token whose span is exactly
\* the `-`; the character after it is not consumed and starts the next
\* token, and parse_int on the token fails with InvalidInteger.
C16_LoneMinus ==
    (/\ last.pre = ParserNew
     /\ CharIn(1, {"-"})
     /\ ~CharIn(2, DecDigit))
    => /\ last.op = "next_token" => (last.res = LoneMinus /\ parser.off = 1)
       /\ last.op = "parse_int"
          => /\ last.res = Err(ParseError(LoneMinus, ParseErrorKind("InvalidInteger")))
             /\ parser.off = 1

-----------------------------------------------------------------------------
(* Properties of the lookahead under changes of the skip mode               *)

Skipped == {TokenKind("Whitespace"), TokenKind("Comment")}

\* peek_token has just run in skip mode with nothing buffered before it, so
\* everything before last.pre.off is consumed and nothing after it is: the
\* read without skipping that follows reports the token at that offset
NoSkipAfterPeek ==
    (/\ last.op = "peek_token"
     /\ last.pre.lookahead = None
     /\ last'.op \in {"peek_no_skip", "next_no_skip"})
    => last'.res.token = read_token(last.pre.off)

\* a read in skip mode returns no blank and no comment, whatever was
\* buffered before it
SkipReadSkips ==
    last'.op \in {"peek_token", "next_token"} => last'.res.token.kind \notin Skipped

\* C17: for any interleaving of peek_token, next_token, peek_no_skip and
\* next_no_skip, a peek_no_skip/next_no_skip issued after a peek_token made
\* in skip mode still reports the whitespace or comment lying between the
\* last consumed token and the buffered token, and a next_token/peek_token
\* in skip mode never returns a Whitespace/Comment token buffered by a
\* no-skip peek.
C17_LookaheadVisibility == [][NoSkipAfterPeek /\ SkipReadSkips]_vars

-----------------------------------------------------------------------------
(* Properties of digit separators                                           *)

NotSeparator(c) == c # "_"

\* the literal without its underscores
Stripped(text) == SelectSeq(text, NotSeparator)

\* the input is an unsigned literal with at least one underscore, each of
\* them between two digits
HasSeparators ==
    /\ \E i \in 1..Len(src) : src[i] = "_"
    /\ \A i \in 1..Len(src) :
           src[i] = "_" => /\ 1 < i /\ i < Len(src)
                           /\ Nibble(src[i - 1]) < 16
                           /\ Nibble(src[i + 1]) < 16
    /\ src[1] \in DecDigit
    /\ ValidDigits(Stripped(src))

\* C18: an integer literal with underscores between its digits, in any
\* base, is lexed as one Integer token, and parse_uint / parse_int return
\* the value of its digits with the underscores removed.
C18_UnderscoreSeparators ==
    (/\ last.op \in {"parse_uint", "parse_int"}
     /\ last.bits = 64
     /\ last.pre = ParserNew
     /\ HasSeparators
     /\ LeDigits(Magnitude(Stripped(src)), ToDigits(MaxI64, BaseOf(src))))
    => /\ LastToken.token.kind.k = "Integer"
       /\ LastToken.token.start = 0
       /\ LastToken.token.end = Len(src)
       /\ last.res.ok
       /\ ToDigits(last.res.val, BaseOf(src)) = Magnitude(Stripped(src))

-----------------------------------------------------------------------------
(* Properties of the \u{..} escape                                          *)

\* the literal is "\u{H..H}" with 1 to 6 hex digits that compose a scalar
\* value
WellFormedUnicode ==
    /\ Len(src) >= 7
    /\ src[4] = "{"
    /\ src[Len(src) - 1] = "}"
    /\ Len(BracedDigits) \in 1..6
    /\ \A i \in 1..Len(BracedDigits) : Nibble(BracedDigits[i]) < 16
    /\ ScalarValue(BigEndian(BracedDigits))

\* C19: a \u{...} escape is accepted only when the braces contain between
\* 1 and 6 hex digits: zero digits, seven or more hex digits, a non-hex
\* character inside the braces, a missing `{` or `}`, or a composed value
\* that is not a Unicode scalar all fail with InvalidEscape.
C19_UnicodeEscapeRejects ==
    (ParsedEscape("u") /\ ~WellFormedUnicode)
    => /\ ~last.res.ok
       /\ last.res.err.kind.k = "InvalidEscape"

-----------------------------------------------------------------------------
(* Properties of the enum map form with blanks                              *)

\* on { variant = 5 } the request for the variant name hands over `variant`,
\* as it does on {variant = 5}
SpacedVariantNamed ==
    (/\ src \in {DocEnum, DocEnumSpaced}
     /\ Running
     /\ Top.f = "enum"
     /\ Top.want = "variant")
    => /\ err' = None
       /\ out' = Append(out, Event("variant", Codes(<<"v", "a", "r", "i", "a", "n", "t">>)))

\* C20: the enum map form accepts whitespace and comments between `{` and
\* the variant identifier: { variant = 5 } deserializes to the same variant
\* and payload as {variant = 5}.  (From the variant name on, the blanks
\* before `=`, the payload and `}` are skipped in both documents.)
C20_EnumFormAllowsBlanks == [][SpacedVariantNamed]_vars

-----------------------------------------------------------------------------
(* Properties of the reported positions                                     *)

\* C21: every SpanToken returned by next_token / peek_token, in either skip
\* mode and after any sequence of reads, carries as line the number of
\* newlines before the token's start and as col the distance of the start
\* from the last of them (or from the start of the input), also when the
\* token follows an unterminated String token that ended at a newline.
C21_PositionInvariant ==
    last.op \in TokenOps => last.res = Located(last.res)

-----------------------------------------------------------------------------
(* Properties of dotted paths                                               *)

\* the segments written out with a `.` between them
RECURSIVE Dotted(_)
Dotted(segments) ==
    IF Len(segments) = 1 THEN segments[1]
    ELSE Dotted(SubSeq(segments, 1, Len(segments) - 1))
             \o <<".">> \o segments[Len(segments)]

\* an identifier that is not a keyword
IsName(text) ==
    /\ Len(text) >= 1
    /\ text[1] \in IdentStart
    /\ \A i \in 2..Len(text) : text[i] \in IdentContinue
    /\ text \notin {<<"t", "r", "u", "e">>, <<"f", "a", "l", "s", "e">>,
                    <<"n", "u", "l", "l">>}

\* the offset of the first character at or after o that is neither a blank
\* nor inside a line comment
RECURSIVE AfterBlanks(_)
AfterBlanks(o) ==
    CASE o >= Len(src) -> o
      [] src[o + 1] \in Whitespace -> AfterBlanks(o + 1)
      [] src[o + 1] = "/" /\ o + 1 < Len(src) /\ src[o + 2] = "/" ->
            IF \E i \in (o + 1)..Len(src) : src[i] = "\n"
            THEN AfterBlanks(CHOOSE i \in (o + 1)..Len(src) :
                                 /\ src[i] = "\n"
                                 /\ \A j \in (o + 1)..(i - 1) : src[j] # "\n")
            ELSE Len(src)
      [] OTHER -> o

\* parse_path has just returned a MapPath
PathParsed == last.op = "parse_path" /\ last.res.ok

\* where the chain that parse_path returned ends: the start of the token it
\* peeked at and left buffered
ChainEnd == parser.lookahead[1].token.start

\* a `.` follows the chain after whitespace or a comment
SpacedDotFollows ==
    /\ PathParsed
    /\ AfterBlanks(ChainEnd) > ChainEnd
    /\ AfterBlanks(ChainEnd) < Len(src)
    /\ src[AfterBlanks(ChainEnd) + 1] = "."

\* the key and the path are the names of the source text `key.seg.seg`
\* that starts at the first token not skipped and is followed by no
\* adjacent `.`
PathIsAdjacentChain ==
    PathParsed
    => LET With(names, text, s, e) ==
               /\ \A i \in 1..Len(names) : IsName(names[i])
               /\ s = Upcoming(last.pre).token.start
               /\ e = s + Len(text)
               /\ text = SubSeq(src, s + 1, e)
               /\ ~PeekIn(e, IdentContinue \cup {"."})
           Chain(names, s) == With(names, Dotted(names), s, ChainEnd)
       IN  /\ parser.lookahead # None
           /\ Chain(<<last.res.val.key>> \o last.res.val.path,
                    ChainEnd - Len(Dotted(<<last.res.val.key>> \o last.res.val.path)))

\* the `.` after the blanks has not been read
SpacedDotUnconsumed ==
    SpacedDotFollows => parser.off <= AfterBlanks(ChainEnd)

\* map_delimiter right after the chain fails at that `.`
SpacedDotRefused ==
    (SpacedDotFollows /\ last'.op = "map_delimiter")
    => LET With(d) ==
               last'.res = Err(ParseError(
                   SpanToken([kind |-> TokenKind("Dot"), start |-> d, end |-> d + 1],
                             LineOf(d), ColOf(d)),
                   ParseErrorKind("ExpectedEqual")))
       IN  With(AfterBlanks(ChainEnd))

\* C22: parse_path returns the first identifier as key and, in order, each
\* further identifier written as an immediately adjacent `.identifier` as
\* path; whitespace or a comment before a `.` ends the chain: parse_path
\* succeeds with the segments read so far and leaves that `.` unread, so
\* that a following map_delimiter fails with ExpectedEqual at that `.`.
C22_PathStopsAtBlank ==
    /\ [](PathIsAdjacentChain /\ SpacedDotUnconsumed)
    /\ [][SpacedDotRefused]_vars

\* `a.b .` has been parsed as key a, path <<b>>, with the `.` at offset 4
\* left for map_delimiter to refuse
C22_Witness ==
    /\ src = <<"a", ".", "b", " ", ".">>
    /\ last.op = "parse_path"
    /\ last.res = Ok(MapPath(<<"a">>, <<<<"b">>>>))
    /\ parser.off = 4
    /\ map_delimiter(parser).res =
           Err(ParseError(SpanToken([kind |-> TokenKind("Dot"), start |-> 4, end |-> 5], 0, 4),
                          ParseErrorKind("ExpectedEqual")))

-----------------------------------------------------------------------------
(* Properties of the signed path of parse_int                               *)

\* parse_int has just read a literal with a `-`, digits valid in its base
\* and a magnitude of at most 2^64 - 1
SignedPath ==
    /\ last.op = "parse_int"
    /\ LastToken.token.kind.k = "Integer"
    /\ LastToken.token.kind.sign
    /\ ValidDigits(LastText)
    /\ LeDigits(Magnitude(LastText), ToDigits(MaxUnsigned(64), BaseOf(Unsigned(LastText))))

InvalidIntegerReturned ==
    last.res = Err(ParseError(LastToken, ParseErrorKind("InvalidInteger")))

\* the magnitude m, negated modulo 2^64 and read as i64, is strictly
\* negative: 0 < m <= 2^63
NegatesBelowZero(m, b) == m # <<>> /\ LeDigits(m, ToDigits(MinI64Magnitude, b))

\* a result returned on the signed path is minus the magnitude, and a
\* strictly negative negation is returned for the 64-bit target
NegatedReturned(m, b) ==
    /\ last.res.ok => IsMinus(last.res.val, m, b)
    /\ (NegatesBelowZero(m, b) /\ last.bits = 64) => last.res.ok

\* C23: on the signed path parse_int negates the 64-bit magnitude with
\* two's-complement wrapping and fails with InvalidInteger whenever the
\* negated result, read as i64, is still non-negative, zero included (so
\* -0 is rejected); it succeeds only when the negated result is strictly
\* negative.
C23_NonNegativeRejected ==
    SignedPath
    => LET With(m, b) ==
               /\ NegatedReturned(m, b)
               /\ ~NegatesBelowZero(m, b) => InvalidIntegerReturned
       IN  With(Magnitude(LastText), BaseOf(Unsigned(LastText)))

\* C23, amended: on the signed path parse_int negates the 64-bit magnitude
\* with two's-complement wrapping and fails with InvalidInteger whenever the
\* negated result, read as i64, is strictly positive; a negated result of
\* zero is returned (-0 is 0 for every target width), and so is a strictly
\* negative one that fits the target.
C23_PositiveRejected ==
    SignedPath
    => LET With(m, b) ==
               /\ NegatedReturned(m, b)
               /\ (m # <<>> /\ ~NegatesBelowZero(m, b)) => InvalidIntegerReturned
               /\ m = <<>> => last.res = Ok(Zero64)
       IN  With(Magnitude(LastText), BaseOf(Unsigned(LastText)))

\* parse_int has returned 0 for -0
C23_Witness ==
    /\ src = <<"-", "0">>
    /\ last.op = "parse_int"
    /\ last.bits = 8
    /\ last.res = Ok(Zero64)

-----------------------------------------------------------------------------
(* Properties of the Cursor's token stream                                  *)

EofToken == [kind |-> TokenKind("Eof"), start |-> Len(src), end |-> Len(src)]

\* the tokens read_token returns from offset o on, up to the first Eof or
\* until `most` of them have been read
RECURSIVE TokenRun(_, _)
TokenRun(o, most) ==
    LET With(token) ==
            IF token.kind = TokenKind("Eof") \/ most = 0 THEN <<>>
            ELSE <<token>> \o TokenRun(token.end, most - 1)
    IN  With(read_token(o))

\* the texts of the tokens, one after the other
RECURSIVE Texts(_)
Texts(tokens) ==
    IF tokens = <<>> THEN <<>>
    ELSE SubSeq(src, Head(tokens).start + 1, Head(tokens).end) \o Texts(Tail(tokens))

\* the token just read starts where the cursor was, ends where the cursor
\* is, lies within the input, and is empty only if it is the Eof at the end
TokenInBounds ==
    last.op = "read_token"
    => /\ last.res.start = last.pre.off
       /\ last.res.end = parser.off
       /\ 0 <= last.res.start
       /\ last.res.start <= last.res.end
       /\ last.res.end <= Len(src)
       /\ last.res.kind # TokenKind("Eof") => last.res.end > last.res.start
       /\ last.res.kind = TokenKind("Eof") => last.res = EofToken
       /\ last.pre.off = Len(src) => last.res = EofToken

\* the tokens before the first Eof are at most Len(src), and their texts
\* make up the whole input
EofWithinLength ==
    LET With(tokens) ==
            /\ Len(tokens) <= Len(src)
            /\ Texts(tokens) = src
    IN  With(TokenRun(0, Len(src) + 1))

\* each token starts at the end of the one before, the first at 0, and once
\* Eof has been returned every later call returns it again
TokenFollows ==
    last'.op = "read_token"
    => /\ last.op = "new" => last'.res.start = 0
       /\ last.op = "read_token" => last'.res.start = last.res.end
       /\ (last.op = "read_token" /\ last.res.kind = TokenKind("Eof"))
          => last'.res = last.res

\* C24: the lexer tiles the source: successive read_token calls return
\* tokens whose start is the end of the one before (0 for the first), every
\* token but Eof has end > start, every start and end lies in [0, len],
\* and after at most len tokens read_token returns Eof with start = end =
\* len and goes on returning that Eof.
C24_TokensTileSource ==
    /\ [](TokenInBounds /\ EofWithinLength)
    /\ [][TokenFollows]_vars

\* `"\` followed by a newline has been read to its end: an unterminated
\* String token over all three characters, then Eof at 3
C24_Witness ==
    /\ src = <<"\"", "\\", "\n">>
    /\ last.op = "read_token"
    /\ last.pre.off = 3
    /\ last.res = [kind |-> TokenKind("Eof"), start |-> 3, end |-> 3]
    /\ TokenRun(0, 4) = <<[kind |-> KString(FALSE), start |-> 0, end |-> 3]>>

-----------------------------------------------------------------------------
(* Properties of the escape walk                                            *)

StringOps == {"parse_string", "try_parse_string"}

\* what a string operation that found a String token has returned
Returned == IF last.op = "parse_string" THEN last.res ELSE last.res[1]

\* a string operation has just read a String token
StringTaken == last.op \in StringOps /\ LastToken.token.kind.k = "String"

\* ... which the lexer marked terminated
TerminatedTaken == StringTaken /\ LastToken.token.kind = KString(TRUE)

\* the walk has reached the expect or the capacity subtraction has
\* underflowed
Panicked(res) == ~res.ok /\ res.err.kind = Panic

NeverPanics == StringTaken => ~Panicked(Returned)

\* a terminated token holds both quotes, so that every backslash in it has
\* a character after it
TerminatedShape ==
    TerminatedTaken
    => /\ Len(LastText) >= 2
       /\ LastText[1] = "\""
       /\ LastText[Len(LastText)] = "\""
       /\ \A i \in 1..Len(LastText) : LastText[i] = "\\" => i < Len(LastText)

\* the walk takes the token's last quote, and no quote before it, for the
\* end of the string: with another character in its place, that character
\* would be pushed last
ClosingQuoteEndsWalk ==
    (TerminatedTaken /\ Returned.ok)
    => Unescape(SubSeq(LastText, 1, Len(LastText) - 1) \o <<"a">>, 1, <<>>)
           = Ok(Append(Returned.val, CodePoint("a")))

KnownEscapes == {"n", "r", "t", "0", "\\", "\"", "x", "u"}

\* the first escape of the text is cut short or names no escape: an
\* unknown letter, `\x` without two hex digits after it, `\u` without `{`
\* or without a `}` before the token ends
FirstEscapeMalformed(text, i) ==
    /\ text[i + 1] = "\\"
    /\ \A j \in 1..i : text[j] # "\\"
    /\ \/ text[i + 2] \notin KnownEscapes
       \/ text[i + 2] = "x" /\ (DigitAt(text, i + 2) < 0 \/ DigitAt(text, i + 3) < 0)
       \/ text[i + 2] = "u" /\ text[i + 3] # "{"
       \/ text[i + 2] = "u" /\ \A j \in (i + 3)..Len(text) : text[j] # "}"

\* a failure on a terminated token is an InvalidEscape at a backslash of
\* the token, and a malformed first escape is such a failure
MalformedReported ==
    TerminatedTaken
    => /\ ~Returned.ok
          => \E pos \in 1..(Len(LastText) - 2) :
                 /\ LastText[pos + 1] = "\\"
                 /\ Returned = Err(ParseError(LastToken, InvalidEscape(pos)))
       /\ \A i \in 1..(Len(LastText) - 2) :
              FirstEscapeMalformed(LastText, i)
              => Returned = Err(ParseError(LastToken, InvalidEscape(i)))

\* C25: parse_string never panics: a String token the lexer marks
\* terminated is at least 2 characters long and the escape walk finds a
\* character after each backslash, because the lexer and the parser agree
\* on which `\"` and `\\` pairs are escapes; every malformed escape is
\* returned as an InvalidEscape error value instead.
C25_ParseStringNeverPanics ==
    NeverPanics /\ TerminatedShape /\ ClosingQuoteEndsWalk /\ MalformedReported

\* "\\\"1" (a backslash pair, a quote pair and a digit between the quotes)
\* has been unescaped to a backslash, a quote and the digit
C25_Witness ==
    /\ src = <<"\"", "\\", "\\", "\\", "\"", "1", "\"">>
    /\ last.op = "parse_string"
    /\ last.res = Ok(<<92, 34, 49>>)

====
